---- MODULE Spec2Model ----
(***************************************************************************)
(* Model of ase/neighborlist.py: the cell-list pair enumerator             *)
(* neighbor_list, the CSR index builder first_neighbors and the stateful   *)
(* neighbor-list caches.                                                   *)
(*                                                                         *)
(* Lengths are integers on a grid (one grid step is the length unit), so   *)
(* positions, lattice vectors, cutoffs and radii are integers and every    *)
(* comparison of a Euclidean norm with a cutoff is made on the squares:    *)
(* for c >= 0, sqrt(x) < c iff x < c*c.  The array the code calls          *)
(* abs_dr_n is therefore kept as the array of squared distances.           *)
(* Floating-point rounding is outside the model.  The skin of a cache is   *)
(* an integer >= 0, so that d > skin is decided as d*d > skin*skin, which  *)
(* is the comparison the code makes.                                       *)
(*                                                                         *)
(* numpy arrays are sequences (1-based); atom indices, bin indices and     *)
(* the species numbers they hold are the code's own 0-based values.        *)
(***************************************************************************)
EXTENDS Integers, Sequences, FiniteSets, TLC

----------------------------------------------------------------------------
(* Bounds of the model *)

MaxAtoms == 2
\* positions have coordinates in -1 .. MaxCoord on the first axis
MaxCoord == 4
\* the side of the cubic cell
CellSide == 3
\* scalar and per-pair cutoffs are 1 .. MaxCutoff
MaxCutoff == 4
\* per-atom radii are 1 .. MaxRadius
MaxRadius == 2
\* first_neighbors: number of atoms and length of the first-index array
MaxNat == 5
MaxPairs == 3
MaxSkin == 3
MaxMoves == 2
\* a run of up to MaxDrift moves of one particle, each of one grid step
MaxDrift == 3
\* mic: the components of a distance vector are -MaxDr .. MaxDr
MaxDr == 8

----------------------------------------------------------------------------
(* Vectors and 3x3 matrices *)

Axes == 1..3

Max(x, y) == IF x >= y THEN x ELSE y
Min(x, y) == IF x <= y THEN x ELSE y
Abs(x) == IF x >= 0 THEN x ELSE -x

Dot(u, v) == u[1] * v[1] + u[2] * v[2] + u[3] * v[3]

Cross(u, v) == << u[2] * v[3] - u[3] * v[2],
                  u[3] * v[1] - u[1] * v[3],
                  u[1] * v[2] - u[2] * v[1] >>

VecAdd(u, v) == << u[1] + v[1], u[2] + v[2], u[3] + v[3] >>
VecSub(u, v) == << u[1] - v[1], u[2] - v[2], u[3] - v[3] >>
VecNeg(u) == << -u[1], -u[2], -u[3] >>
Zero3 == <<0, 0, 0>>

\* S.dot(cell): the rows of cell are the lattice vectors
VecMat(S, cell) ==
    << S[1] * cell[1][1] + S[2] * cell[2][1] + S[3] * cell[3][1],
       S[1] * cell[1][2] + S[2] * cell[2][2] + S[3] * cell[3][2],
       S[1] * cell[1][3] + S[2] * cell[2][3] + S[3] * cell[3][3] >>

Det(cell) == Dot(cell[1], Cross(cell[2], cell[3]))

\* floor(x / y) for y # 0, as numpy's floor, floor_divide and divmod
FloorDiv(x, y) == IF y > 0 THEN x \div y ELSE (-x) \div (-y)

----------------------------------------------------------------------------
(* numpy array primitives *)

\* an array given by its entries, with every entry computed once
Array(f) == f \o <<>>

\* the positions (1-based, ascending) where the boolean mask m is True
Where(m) == SelectSeq(Array([n \in 1..Len(m) |-> n]), LAMBDA n : m[n])

\* arr[m] for a boolean mask m of the same length
Compress(arr, m) ==
    LET idx == Where(m)
    IN  Array([k \in 1..Len(idx) |-> arr[idx[k]]])

\* arr[idx] for an index array idx (positions are 1-based here)
Take(arr, idx) == Array([n \in 1..Len(idx) |-> arr[idx[n]]])

\* the positions n (ascending) of arr with arr[n] = k
Positions(arr, k) ==
    SelectSeq(Array([n \in 1..Len(arr) |-> n]), LAMBDA n : arr[n] = k)

\* mutant: the order is left as it is
argsort_none(arr, lo, hi) == Array([n \in 1..Len(arr) |-> n])

\* np.argsort of an array with values in lo..hi: equal keys keep their order
RECURSIVE argsort(_, _, _)
argsort(arr, lo, hi) ==
    IF lo > hi THEN <<>>
    ELSE Positions(arr, lo) \o argsort(arr, lo + 1, hi)

\* np.concatenate
RECURSIVE Flatten(_)
Flatten(ss) ==
    IF ss = <<>> THEN <<>>
    ELSE IF Len(ss) = 1 THEN ss[1]
    ELSE LET h == Len(ss) \div 2
         IN  Flatten(SubSeq(ss, 1, h)) \o Flatten(SubSeq(ss, h + 1, Len(ss)))

\* range(lo, hi + 1) as a sequence
Range(lo, hi) == Array([n \in 1..Max(hi - lo + 1, 0) |-> lo + n - 1])

----------------------------------------------------------------------------
(* neighbor_list: cutoff, bins and search radii (lines 132-158)            *)
(*                                                                         *)
(* An Atoms object is a record [positions, cell, pbc, numbers]: positions  *)
(* and numbers are sequences over the atoms (atom i is entry i + 1), cell  *)
(* is the triple of lattice vectors, pbc a triple of booleans.             *)
(* A cutoff is a record [kind, c, d, r]: kind "scalar" with the float c,   *)
(* kind "dict" with the sequence d of items <<el1, el2, c>> in iteration   *)
(* order, kind "array" with the per-atom radii r.                          *)

natoms(a) == Len(a.positions)

\* The columns of pinv(cell), each multiplied by det(cell): b_k = rec_c[k] / det
rec_c(cell) == << Cross(cell[2], cell[3]),
                  Cross(cell[3], cell[1]),
                  Cross(cell[1], cell[2]) >>

RECURSIVE SeqMax(_)
SeqMax(s) == IF Len(s) = 1 THEN s[1] ELSE Max(Head(s), SeqMax(Tail(s)))

\* mutant: the coarse cutoff of per-atom radii is max(r), not 2 * max(r)
max_cutoff_single(cutoff) ==
    IF cutoff.kind = "dict"
    THEN SeqMax(Array([n \in 1..Len(cutoff.d) |-> cutoff.d[n][3]]))
    ELSE IF cutoff.kind = "scalar" THEN cutoff.c
    ELSE SeqMax(cutoff.r)

max_cutoff_of(cutoff) ==
    IF cutoff.kind = "dict"
    THEN SeqMax(Array([n \in 1..Len(cutoff.d) |-> cutoff.d[n][3]]))
    ELSE IF cutoff.kind = "scalar" THEN cutoff.c
    ELSE 2 * SeqMax(cutoff.r)

\* the largest m >= from with m*m*p <= q  (p > 0, q >= 0)
RECURSIVE TruncSqrtRatio(_, _, _)
TruncSqrtRatio(m, p, q) ==
    IF (m + 1) * (m + 1) * p <= q THEN TruncSqrtRatio(m + 1, p, q) ELSE m

\* the least m >= from with m*m*p >= q  (p > 0, q >= 0)
RECURSIVE CeilSqrtRatio(_, _, _)
CeilSqrtRatio(m, p, q) ==
    IF m * m * p >= q THEN m ELSE CeilSqrtRatio(m + 1, p, q)

\* face_dist_c[k] = 1 / |b_k| = |det| / |rec_c[k]|, so
\* (face_dist_c[k] / max_cutoff) ** 2 = det**2 / (max_cutoff**2 * |rec_c[k]|**2)
nbins_c_of(cell, max_cutoff) ==
    LET det == Det(cell)
        rec == rec_c(cell)
        nb(k) == IF max_cutoff < 0 THEN 1
                 ELSE Max(TruncSqrtRatio(0, max_cutoff * max_cutoff * Dot(rec[k], rec[k]),
                                         det * det), 1)
    IN  << nb(1), nb(2), nb(3) >>

\* mutant: the search visits the adjacent bins only
nd_adjacent(cell, max_cutoff, nbins_c) == << 1, 1, 1 >>

\* np.ceil(max_cutoff * nbins_c / face_dist_c).astype(int)
nd_of(cell, max_cutoff, nbins_c) ==
    LET det == Det(cell)
        rec == rec_c(cell)
        q(k) == max_cutoff * max_cutoff * nbins_c[k] * nbins_c[k] * Dot(rec[k], rec[k])
        nd(k) == IF max_cutoff >= 0
                 THEN CeilSqrtRatio(0, det * det, q(k))
                 ELSE -TruncSqrtRatio(0, det * det, q(k))
    IN  << nd(1), nd(2), nd(3) >>

----------------------------------------------------------------------------
(* neighbor_list: sorting atoms into bins (lines 160-204) *)

\* np.floor(spos_ic * nbins_c) with spos_ic = positions . pinv(cell)
raw_bin_index_ic(a, nbins_c) ==
    LET det == Det(a.cell)
        rec == rec_c(a.cell)
        raw(i, k) == FloorDiv(Dot(a.positions[i], rec[k]) * nbins_c[k], det)
    IN  Array([i \in 1..natoms(a) |-> << raw(i, 1), raw(i, 2), raw(i, 3) >>])

\* lines 163-169: the shift of the wrap on periodic axes, zero elsewhere
cell_shift_ic_of(a, nbins_c) ==
    LET raw == raw_bin_index_ic(a, nbins_c)
        cs(i, k) == IF a.pbc[k] THEN FloorDiv(raw[i][k], nbins_c[k]) ELSE 0
    IN  Array([i \in 1..natoms(a) |-> << cs(i, 1), cs(i, 2), cs(i, 3) >>])

\* lines 163-169: the wrapped bin on periodic axes, the clipped bin elsewhere
bin_index_ic_of(a, nbins_c) ==
    LET raw == raw_bin_index_ic(a, nbins_c)
        bi(i, k) == IF a.pbc[k] THEN raw[i][k] % nbins_c[k]
                    ELSE Max(0, Min(raw[i][k], nbins_c[k] - 1))
    IN  Array([i \in 1..natoms(a) |-> << bi(i, 1), bi(i, 2), bi(i, 3) >>])

\* bx + nbins_c[0] * (by + nbins_c[1] * bz)
ScalarBin(b, nbins_c) == b[1] + nbins_c[1] * (b[2] + nbins_c[2] * b[3])

\* bins_ba: for every occupied bin b the pair <<b, atoms>>, where atoms are
\* the atoms of bin b in ascending order padded with -1 up to
\* max_nat_per_bin.  A bin that holds no atom is a row of -1 in the code and
\* has no entry here: all the pairs it would give are removed in line 259.
bins_ba_of(a, nbins_c) ==
    LET bic == bin_index_ic_of(a, nbins_c)
        bin_index_i == Array([i \in 1..natoms(a) |-> ScalarBin(bic[i], nbins_c)])
        nbins == nbins_c[1] * nbins_c[2] * nbins_c[3]
        occupied == SelectSeq(Array([n \in 1..nbins |-> n - 1]),
                              LAMBDA b : \E i \in 1..natoms(a) : bin_index_i[i] = b)
        members == Array([n \in 1..Len(occupied) |->
                            Positions(bin_index_i, occupied[n])])
        max_nat_per_bin == SeqMax(Array([n \in 1..Len(members) |-> Len(members[n])]))
    IN  Array([n \in 1..Len(occupied) |->
            << occupied[n],
               Array([p \in 1..max_nat_per_bin |->
                   IF p <= Len(members[n]) THEN members[n][p] - 1 ELSE -1]) >>])

\* bins_ba[b], a row of -1 for a bin that holds no atom
BinRow(bins_ba, b) ==
    LET at == SelectSeq(bins_ba, LAMBDA e : e[1] = b)
    IN  IF at = <<>> THEN Array([p \in 1..Len(bins_ba[1][2]) |-> -1]) ELSE at[1][2]

----------------------------------------------------------------------------
(* neighbor_list: the search over neighbouring bins (lines 206-275) *)

\* mutant: the wrap of the target bin is not recorded as a shift
OffsetPairs_unshifted(bins_ba, nbins_c, dx, dy, dz) ==
    LET M == Len(bins_ba[1][2])
        ofBin(e) ==
            LET b == e[1]
                bx == b % nbins_c[1]
                by == (b \div nbins_c[1]) % nbins_c[2]
                bz == b \div (nbins_c[1] * nbins_c[2])
                S == Zero3
                b1 == ScalarBin(<<(bx + dx) % nbins_c[1],
                                  (by + dy) % nbins_c[2],
                                  (bz + dz) % nbins_c[3]>>, nbins_c)
                row1 == BinRow(bins_ba, b1)
                all == Array([n \in 1..(M * M) |->
                          [i |-> e[2][((n - 1) \div M) + 1],
                           j |-> row1[((n - 1) % M) + 1],
                           S |-> S]])
            IN  SelectSeq(all, LAMBDA c : c.i # -1 /\ c.j # -1)
    IN  Flatten(Array([n \in 1..Len(bins_ba) |-> ofBin(bins_ba[n])]))

\* the candidates of one offset (dx, dy, dz), bin by bin, each bin with the
\* max_nat_per_bin**2 slot pairs of ix_pn, pad slots removed (line 259)
OffsetPairs(bins_ba, nbins_c, dx, dy, dz) ==
    LET M == Len(bins_ba[1][2])
        ofBin(e) ==
            LET b == e[1]
                bx == b % nbins_c[1]
                by == (b \div nbins_c[1]) % nbins_c[2]
                bz == b \div (nbins_c[1] * nbins_c[2])
                S == << FloorDiv(bx + dx, nbins_c[1]),
                        FloorDiv(by + dy, nbins_c[2]),
                        FloorDiv(bz + dz, nbins_c[3]) >>
                b1 == ScalarBin(<<(bx + dx) % nbins_c[1],
                                  (by + dy) % nbins_c[2],
                                  (bz + dz) % nbins_c[3]>>, nbins_c)
                row1 == BinRow(bins_ba, b1)
                all == Array([n \in 1..(M * M) |->
                          [i |-> e[2][((n - 1) \div M) + 1],
                           j |-> row1[((n - 1) % M) + 1],
                           S |-> S]])
            IN  SelectSeq(all, LAMBDA c : c.i # -1 /\ c.j # -1)
    IN  Flatten(Array([n \in 1..Len(bins_ba) |-> ofBin(bins_ba[n])]))

\* the loops over dz, dy, dx (dx innermost) and the concatenation
SearchPairs(bins_ba, nbins_c, nd) ==
    LET wx == 2 * nd[1] + 1
        wy == 2 * nd[2] + 1
        wz == 2 * nd[3] + 1
        count == IF wx <= 0 \/ wy <= 0 \/ wz <= 0 THEN 0 ELSE wx * wy * wz
    IN  Flatten(Array([n \in 1..count |->
            OffsetPairs(bins_ba, nbins_c,
                        ((n - 1) % wx) - nd[1],
                        (((n - 1) \div wx) % wy) - nd[2],
                        ((n - 1) \div (wx * wy)) - nd[3])]))

\* S_n += cell_shift_ic[i_n] - cell_shift_ic[j_n]
AddCellShift(S_n, i_n, j_n, cell_shift_ic) ==
    Array([n \in 1..Len(S_n) |->
        VecAdd(S_n[n], VecSub(cell_shift_ic[i_n[n] + 1], cell_shift_ic[j_n[n] + 1]))])

----------------------------------------------------------------------------
(* neighbor_list: filters, sort, distances, cutoffs (lines 277-344) *)

IsZero3(S) == S[1] = 0 /\ S[2] = 0 /\ S[3] = 0

\* mutant: every pair of an atom with itself is removed, images included
SelfMask_anyshift(i_n, j_n, S_n) ==
    Array([n \in 1..Len(i_n) |-> i_n[n] # j_n[n]])

\* line 279: the mask that removes self-pairs that do not cross the cell boundary
SelfMask(i_n, j_n, S_n) ==
    Array([n \in 1..Len(i_n) |-> ~(i_n[n] = j_n[n] /\ IsZero3(S_n[n]))])

\* mutant: the bonds across a non-periodic boundary are kept
NonPeriodicMask_none(S_n, pbc, c) ==
    Array([n \in 1..Len(S_n) |-> TRUE])

\* lines 287-288: the mask of axis c (all True when the axis is periodic and
\* the code skips the filter)
NonPeriodicMask(S_n, pbc, c) ==
    Array([n \in 1..Len(S_n) |-> pbc[c] \/ S_n[n][c] = 0])

\* mutant: the shift is left out of the distance vector
dr_nc_unshifted(a, i_n, j_n, S_n) ==
    Array([n \in 1..Len(i_n) |->
        VecSub(a.positions[j_n[n] + 1], a.positions[i_n[n] + 1])])

\* line 300
dr_nc_of(a, i_n, j_n, S_n) ==
    Array([n \in 1..Len(i_n) |->
        VecAdd(VecSub(a.positions[j_n[n] + 1], a.positions[i_n[n] + 1]),
               VecMat(S_n[n], a.cell))])

\* line 301 without the square root: the squared distances
abs_dr_n_of(dr_nc) == Array([n \in 1..Len(dr_nc) |-> Dot(dr_nc[n], dr_nc[n])])

\* sqrt(d2) < c
LessThan(d2, c) == c > 0 /\ d2 < c * c

\* mutant: a pair at exactly the cutoff is kept
CoarseMask_inclusive(abs_dr_n, max_cutoff) ==
    Array([n \in 1..Len(abs_dr_n) |->
        max_cutoff > 0 /\ abs_dr_n[n] <= max_cutoff * max_cutoff])

\* line 305
CoarseMask(abs_dr_n, max_cutoff) ==
    Array([n \in 1..Len(abs_dr_n) |-> LessThan(abs_dr_n[n], max_cutoff)])

\* ase.data.atomic_numbers, for the symbols the model uses
atomic_numbers == [el \in {"H", "C"} |-> IF el = "H" THEN 1 ELSE 6]

\* lines 318-325: a key element is <<"sym", s>> or <<"num", z>>; a symbol
\* that atomic_numbers knows becomes its number, anything else stays
ElementOf(el) ==
    IF el[1] = "sym" /\ el[2] \in DOMAIN atomic_numbers
    THEN <<"num", atomic_numbers[el[2]]>>
    ELSE el

\* n[...] == el
NumberIs(z, el) == el[1] = "num" /\ el[2] = z

\* mutant: a key matches in the order it is written only
PairMask_ordered(numbers, i_n, j_n, e1, e2) ==
    Array([n \in 1..Len(i_n) |->
        /\ NumberIs(numbers[i_n[n] + 1], ElementOf(e1))
        /\ NumberIs(numbers[j_n[n] + 1], ElementOf(e2))])

\* lines 326-330: the mask of one item of the dict
PairMask(numbers, i_n, j_n, e1, e2) ==
    LET el1 == ElementOf(e1)
        el2 == ElementOf(e2)
        ni(n) == numbers[i_n[n] + 1]
        nj(n) == numbers[j_n[n] + 1]
    IN  Array([n \in 1..Len(i_n) |->
            IF el1[1] = el2[1] /\ el1[2] = el2[2]
            THEN NumberIs(ni(n), el1) /\ NumberIs(nj(n), el2)
            ELSE \/ NumberIs(ni(n), el1) /\ NumberIs(nj(n), el2)
                 \/ NumberIs(ni(n), el2) /\ NumberIs(nj(n), el1)])

\* lines 316-331: zeros, then every item in turn overwrites the entries of
\* its mask
RECURSIVE per_pair_cutoff_n_of(_, _, _, _)
per_pair_cutoff_n_of(items, numbers, i_n, j_n) ==
    IF items = <<>> THEN Array([n \in 1..Len(i_n) |-> 0])
    ELSE LET last == items[Len(items)]
             before == per_pair_cutoff_n_of(SubSeq(items, 1, Len(items) - 1),
                                            numbers, i_n, j_n)
             m == PairMask(numbers, i_n, j_n, last[1], last[2])
         IN  Array([n \in 1..Len(i_n) |-> IF m[n] THEN last[3] ELSE before[n]])

\* line 332
DictMask(abs_dr_n, per_pair_cutoff_n) ==
    Array([n \in 1..Len(abs_dr_n) |-> LessThan(abs_dr_n[n], per_pair_cutoff_n[n])])

\* mutant: the radius of the first atom is taken twice
ArrayMask_first(abs_dr_n, i_n, j_n, r) ==
    Array([n \in 1..Len(abs_dr_n) |->
        LessThan(abs_dr_n[n], r[i_n[n] + 1] + r[i_n[n] + 1])])

\* line 339
ArrayMask(abs_dr_n, i_n, j_n, r) ==
    Array([n \in 1..Len(abs_dr_n) |-> LessThan(abs_dr_n[n], r[i_n[n] + 1] + r[j_n[n] + 1])])

\* lines 312-344: the mask of the exact cutoff policy
ExactMask(a, cutoff, i_n, j_n, abs_dr_n) ==
    IF cutoff.kind = "dict"
    THEN DictMask(abs_dr_n, per_pair_cutoff_n_of(cutoff.d, a.numbers, i_n, j_n))
    ELSE IF cutoff.kind = "array"
    THEN ArrayMask(abs_dr_n, i_n, j_n, cutoff.r)
    ELSE Array([n \in 1..Len(abs_dr_n) |-> TRUE])

----------------------------------------------------------------------------
(* neighbor_list('ijSDd', a, cutoff, self_interaction) *)

\* lines 232-275: the arrays i_n, j_n, S_n of the candidates
Candidates(bins_ba, nbins_c, nd, cell_shift_ic) ==
    LET cand == SearchPairs(bins_ba, nbins_c, nd)
        i_n == Array([n \in 1..Len(cand) |-> cand[n].i])
        j_n == Array([n \in 1..Len(cand) |-> cand[n].j])
        S_n == Array([n \in 1..Len(cand) |-> cand[n].S])
    IN  [i |-> i_n, j |-> j_n, S |-> AddCellShift(S_n, i_n, j_n, cell_shift_ic)]

\* the element of a set of one element.  Only({ e(v) : v \in {x} }) is e(x)
\* with x computed first, as a statement has the values of the statements
\* before it
Only(S) == CHOOSE r \in S : TRUE

\* i_n = i_n[m]; j_n = j_n[m]; S_n = S_n[m]
Masked3(p, m) ==
    [i |-> Compress(p.i, m), j |-> Compress(p.j, m), S |-> Compress(p.S, m)]

\* the same with dr_nc and abs_dr_n (lines 306-310, 333-337, 340-344)
Masked5(p, m) ==
    [i |-> Compress(p.i, m), j |-> Compress(p.j, m), S |-> Compress(p.S, m),
     D |-> Compress(p.D, m), d |-> Compress(p.d, m)]

\* lines 278-282
SelfFiltered(p, self_interaction) ==
    Only({
        IF self_interaction THEN v ELSE Masked3(v, SelfMask(v.i, v.j, v.S))
        : v \in {p} })

\* lines 286-291 for the axis c
NonPeriodicFiltered(p, pbc, c) ==
    Only({ Masked3(v, NonPeriodicMask(v.S, pbc, c)) : v \in {p} })

\* lines 294-297
Sorted(p, nat) ==
    Only({
        LET perm == argsort(v.i, 0, nat - 1)
        IN  [i |-> Take(v.i, perm), j |-> Take(v.j, perm), S |-> Take(v.S, perm)]
        : v \in {p} })

\* lines 300-301
WithDistances(a, p) ==
    Only({
        LET dr_nc == dr_nc_of(a, v.i, v.j, v.S)
        IN  [i |-> v.i, j |-> v.j, S |-> v.S, D |-> dr_nc, d |-> abs_dr_n_of(dr_nc)]
        : v \in {p} })

\* lines 305-310
CoarseFiltered(p, max_cutoff) ==
    Only({ Masked5(v, CoarseMask(v.d, max_cutoff)) : v \in {p} })

\* lines 312-344
ExactFiltered(a, cutoff, p) ==
    Only({ Masked5(v, ExactMask(a, cutoff, v.i, v.j, v.d)) : v \in {p} })

\* lines 132-310: the pairs that pass the coarse cutoff
CoarsePairs(a, cutoff, self_interaction) ==
    LET max_cutoff == max_cutoff_of(cutoff)
        nbins_c == nbins_c_of(a.cell, max_cutoff)
    IN  CoarseFiltered(
          WithDistances(a,
            Sorted(
              NonPeriodicFiltered(
                NonPeriodicFiltered(
                  NonPeriodicFiltered(
                    SelfFiltered(
                      Candidates(bins_ba_of(a, nbins_c), nbins_c,
                                 nd_of(a.cell, max_cutoff, nbins_c),
                                 cell_shift_ic_of(a, nbins_c)),
                      self_interaction),
                    a.pbc, 1),
                  a.pbc, 2),
                a.pbc, 3),
              natoms(a))),
          max_cutoff)

\* line 339: cutoff[i_n] + cutoff[j_n] raises IndexError when an atom of a
\* pair p that passed the coarse cutoff has no radius
IndexRaised(cutoff, p) ==
    IF /\ cutoff.kind = "array"
       /\ \E n \in 1..Len(p.i) : p.i[n] >= Len(cutoff.r) \/ p.j[n] >= Len(cutoff.r)
    THEN "IndexError"
    ELSE "none"

\* line 183: np.bincount(bin_index_i).max() raises ValueError when there is
\* no atom; line 268: np.concatenate raises ValueError when the loops of
\* lines 232-234 appended nothing, which is when one of ndx, ndy, ndz is
\* negative (with an atom and no negative nd the offset (0, 0, 0) pairs
\* every atom with itself)
SearchRaised(a, cutoff) ==
    IF natoms(a) = 0 THEN "ValueError"
    ELSE LET max_cutoff == max_cutoff_of(cutoff)
             nbins_c == nbins_c_of(a.cell, max_cutoff)
             nd == nd_of(a.cell, max_cutoff, nbins_c)
         IN  IF \E k \in Axes : nd[k] < 0 THEN "ValueError" ELSE "none"

\* the exception neighbor_list ends in, "none" when it returns: np.max of an
\* empty array of radii (line 150) raises ValueError, the search raises as
\* SearchRaised says, line 339 can raise IndexError.  An array longer than
\* the number of atoms raises nothing, and nothing looks at the sign of a
\* cutoff or at the species a key names.
neighbor_list_raises(a, cutoff, self_interaction) ==
    IF cutoff.kind = "array" /\ Len(cutoff.r) = 0 THEN "ValueError"
    ELSE IF SearchRaised(a, cutoff) # "none" THEN SearchRaised(a, cutoff)
    ELSE IndexRaised(cutoff, CoarsePairs(a, cutoff, self_interaction))

neighbor_list(a, cutoff, self_interaction) ==
    ExactFiltered(a, cutoff, CoarsePairs(a, cutoff, self_interaction))

----------------------------------------------------------------------------
(* State *)

VARIABLES
    a,                  \* the Atoms object of the caller
    cutoff,             \* the arguments of the last call of neighbor_list
    self_interaction,
    pc,                 \* "idle", "returned" after neighbor_list returned, or
                        \* the exception the call ended in
    i_n, j_n, S_n,      \* the arrays returned for 'i', 'j', 'S',
    dr_nc, abs_dr_n     \* 'D' and 'd' (squared)

nlvars == <<a, cutoff, self_interaction, pc, i_n, j_n, S_n, dr_nc, abs_dr_n>>

VARIABLES
    fn_nat,             \* first_neighbors: the argument nat,
    fn_i,               \* the argument i,
    fn_s,               \* the array s (entry k is s[k + 1]),
    fn_pc               \* "idle", "called", "fill" (in the while loop), "returned"

fnvars == <<fn_nat, fn_i, fn_s, fn_pc>>

VARIABLES
    impl,               \* the class the caller uses: "NeighborList",
                        \* "LegacyNeighborList" (a PrimitiveNeighborList
                        \* inside), "PrimitiveNeighborList", or both of
                        \* "NeighborList and PrimitiveNeighborList"
    radii,              \* the radii the caller has constructed the cache with
    nl,                 \* the NeighborList object, a record of its attributes
    pnl,                \* the PrimitiveNeighborList object, likewise
    rebuilt,            \* what the last update did: "none" before the first call,
                        \* "True" or "False" returned, or the exception raised
                        \* (a pair of these when the caller keeps both classes)
    nmoves              \* how often the caller has changed the Atoms object

cachevars == <<impl, radii, nl, pnl, rebuilt, nmoves>>

VARIABLES
    mic_args,           \* mic: the arguments dr, cell and pbc of the call,
    mic_ret,            \* the array it returned,
    mic_pc              \* "idle", or "returned" after mic returned

micvars == <<mic_args, mic_ret, mic_pc>>

vars == <<nlvars, fnvars, cachevars, micvars>>

----------------------------------------------------------------------------
(* The configurations and cutoffs the model draws from *)

Diag(lx, ly, lz) == << <<lx, 0, 0>>, <<0, ly, 0>>, <<0, 0, lz>> >>

\* a cubic cell, an orthorhombic cell with one shorter and one longer side
\* and a sheared cell
Cells == { Diag(CellSide, CellSide, CellSide),
           Diag(CellSide - 1, 2 * CellSide, CellSide),
           << <<2 * CellSide, 0, 0>>,
              <<CellSide, 2 * CellSide, 0>>,
              <<0, 0, 2 * CellSide>> >> }

\* every axis occurs periodic and non-periodic, alone and with the others
PbcMasks == { <<FALSE, FALSE, FALSE>>, <<TRUE, FALSE, FALSE>>,
              <<FALSE, TRUE, TRUE>>, <<TRUE, TRUE, TRUE>> }

\* atom 0, atom 1 and any further atom: inside the cells, on their faces and
\* outside them on either side
FirstSites == { <<0, 0, 0>>, <<-1, 1, 0>> }
Sites == { <<x, y, 0>> : x \in -1..MaxCoord, y \in {0, 1} }
             \cup { <<0, 0, -1>>, <<0, 0, 2>> }
ExtraSites == { <<1, 1, 1>> }

SiteOf(k) == IF k = 1 THEN FirstSites ELSE IF k = 2 THEN Sites ELSE ExtraSites

PositionArrays ==
    UNION { { p \in [1..n -> FirstSites \cup Sites \cup ExtraSites] :
                \A k \in 1..n : p[k] \in SiteOf(k) } : n \in 1..MaxAtoms }

\* hydrogen and carbon alternate: atom 0 is H, atom 1 is C, ...
NumbersOf(n) == [k \in 1..n |-> IF k % 2 = 1 THEN 1 ELSE 6]

Configurations ==
    { [positions |-> p, cell |-> cell, pbc |-> pbc, numbers |-> NumbersOf(Len(p))] :
        p \in PositionArrays, cell \in Cells, pbc \in PbcMasks }

Scalar(c) == [kind |-> "scalar", c |-> c, d |-> <<>>, r |-> <<>>]
Radii(r) == [kind |-> "array", c |-> 0, d |-> <<>>, r |-> r]
PairDict(d) == [kind |-> "dict", c |-> 0, d |-> d, r |-> <<>>]

\* one radius for atom 0 and one for all the others
RadiiArrays(n) ==
    { [k \in 1..n |-> IF k = 1 THEN p ELSE q] : p \in 1..MaxRadius, q \in 1..MaxRadius }

\* {('H', 'C'): v} for every v, and {(6, 1): MaxCutoff, ('C', 'C'): 1};
\* ('H', 'H') is in neither
PairDicts ==
    { << << <<"sym", "H">>, <<"sym", "C">>, v >> >> : v \in 1..MaxCutoff }
      \cup { << << <<"num", 6>>, <<"num", 1>>, MaxCutoff >>,
                << <<"sym", "C">>, <<"sym", "C">>, 1 >> >> }

Cutoffs(n) ==
    { Scalar(c) : c \in 1..MaxCutoff }
      \cup { Radii(r) : r \in RadiiArrays(n) }
      \cup { PairDict(d) : d \in PairDicts }

----------------------------------------------------------------------------
(* Specification of neighbor_list *)

\* no cache has been constructed
CacheIdle ==
    /\ impl = "none"
    /\ radii = <<>>
    /\ nl = <<>>
    /\ pnl = <<>>
    /\ rebuilt = "none"
    /\ nmoves = 0

\* mic is not in use
MicIdle ==
    /\ mic_args = <<>>
    /\ mic_ret = <<>>
    /\ mic_pc = "idle"

\* first_neighbors is not in use
FNIdle ==
    /\ fn_nat = 0
    /\ fn_i = <<>>
    /\ fn_s = <<>>
    /\ fn_pc = "idle"

NLInit ==
    /\ a \in Configurations
    /\ cutoff = Scalar(0)
    /\ self_interaction = FALSE
    /\ pc = "idle"
    /\ i_n = <<>>
    /\ j_n = <<>>
    /\ S_n = <<>>
    /\ dr_nc = <<>>
    /\ abs_dr_n = <<>>
    /\ FNIdle
    /\ CacheIdle
    /\ MicIdle

\* i_n, j_n, S_n, dr_nc, abs_dr_n = neighbor_list('ijSDd', a, cut, si)
CallNeighborList(cut, si) ==
    /\ pc = "idle"
    /\ \E ret \in { neighbor_list(a, cut, si) } :
        /\ cutoff' = cut
        /\ self_interaction' = si
        /\ i_n' = ret.i
        /\ j_n' = ret.j
        /\ S_n' = ret.S
        /\ dr_nc' = ret.D
        /\ abs_dr_n' = ret.d
        /\ pc' = "returned"
        /\ UNCHANGED <<a, fnvars, cachevars, micvars>>

NLNext ==
    \E cut \in Cutoffs(natoms(a)), si \in BOOLEAN : CallNeighborList(cut, si)

Spec == NLInit /\ [][NLNext]_vars

----------------------------------------------------------------------------
(* first_neighbors (lines 367-398) *)

\* mutant: the first range is taken to start at atom 0
s_initial_atom0(nat, i) ==
    LET starts(k) == { n \in 1..(Len(i) - 1) : i[n + 1] = k /\ i[n] # i[n + 1] }
        last(k) == CHOOSE n \in starts(k) : \A o \in starts(k) : o <= n
    IN  Array([e \in 1..(nat + 1) |->
            IF starts(e - 1) # {} THEN last(e - 1)
            ELSE IF e = nat + 1 THEN Len(i)
            ELSE IF e - 1 = 0 THEN 0
            ELSE -1])

\* lines 388-393: s = -1 everywhere, then s[i[0]] = 0, s[-1] = len(i) and, for
\* every position n >= 1 where i changes, s[i[n]] = n (the last assignment
\* to an entry stays)
s_initial(nat, i) ==
    LET starts(k) == { n \in 1..(Len(i) - 1) : i[n + 1] = k /\ i[n] # i[n + 1] }
        last(k) == CHOOSE n \in starts(k) : \A o \in starts(k) : o <= n
    IN  Array([e \in 1..(nat + 1) |->
            IF starts(e - 1) # {} THEN last(e - 1)
            ELSE IF e = nat + 1 THEN Len(i)
            ELSE IF e - 1 = i[1] THEN 0
            ELSE -1])

\* line 396: s[m] = s[np.arange(nat+1)[m]+1] with m = (s == -1); the right
\* side is read before any entry is written
s_filled(s) ==
    Array([e \in 1..Len(s) |-> IF s[e] = -1 THEN s[e + 1] ELSE s[e]])

FNInit ==
    /\ fn_nat \in 0..MaxNat
    /\ fn_i \in UNION { { i \in [1..n -> 0..(fn_nat - 1)] :
                            \A k \in 1..(n - 1) : i[k] <= i[k + 1] } : n \in 0..MaxPairs }
    /\ fn_s = <<>>
    /\ fn_pc = "called"
    /\ a = [positions |-> <<>>, cell |-> Diag(1, 1, 1),
            pbc |-> <<FALSE, FALSE, FALSE>>, numbers |-> <<>>]
    /\ cutoff = Scalar(0)
    /\ self_interaction = FALSE
    /\ pc = "idle"
    /\ i_n = <<>>
    /\ j_n = <<>>
    /\ S_n = <<>>
    /\ dr_nc = <<>>
    /\ abs_dr_n = <<>>
    /\ CacheIdle
    /\ MicIdle

\* lines 386-387: no pairs, all zeros
FNEmpty ==
    /\ fn_pc = "called"
    /\ Len(fn_i) = 0
    /\ fn_s' = Array([e \in 1..(fn_nat + 1) |-> 0])
    /\ fn_pc' = "returned"
    /\ UNCHANGED <<fn_nat, fn_i, nlvars, cachevars, micvars>>

\* lines 388-394
FNStart ==
    /\ fn_pc = "called"
    /\ Len(fn_i) # 0
    /\ fn_s' = s_initial(fn_nat, fn_i)
    /\ fn_pc' = "fill"
    /\ UNCHANGED <<fn_nat, fn_i, nlvars, cachevars, micvars>>

\* lines 395-397: one pass of the while loop
FNFill ==
    /\ fn_pc = "fill"
    /\ \E e \in 1..Len(fn_s) : fn_s[e] = -1
    /\ fn_s' = s_filled(fn_s)
    /\ UNCHANGED <<fn_nat, fn_i, fn_pc, nlvars, cachevars, micvars>>

\* line 398
FNReturn ==
    /\ fn_pc = "fill"
    /\ \A e \in 1..Len(fn_s) : fn_s[e] # -1
    /\ fn_pc' = "returned"
    /\ UNCHANGED <<fn_nat, fn_i, fn_s, nlvars, cachevars, micvars>>

FNNext == FNEmpty \/ FNStart \/ FNFill \/ FNReturn

SpecFN == FNInit /\ [][FNNext]_vars

----------------------------------------------------------------------------
(* first_neighbors as the callers see it: the value it returns *)

\* lines 394-397: the while loop, run until no entry is -1
RECURSIVE s_backfilled(_)
s_backfilled(s) ==
    IF \E e \in 1..Len(s) : s[e] = -1 THEN s_backfilled(s_filled(s)) ELSE s

first_neighbors(nat, i) ==
    IF Len(i) = 0 THEN Array([e \in 1..(nat + 1) |-> 0])
    ELSE s_backfilled(s_initial(nat, i))

----------------------------------------------------------------------------
(* NeighborList (lines 401-508)                                            *)
(*                                                                         *)
(* The object is the record of its attributes.  The attributes that build  *)
(* creates (pbc, cell, positions, pair_first, pair_second, offset_vec,     *)
(* first_neigh) are <<>> as long as they do not exist.                     *)

\* mutant: the skin is not added to the radii
NeighborList_init_noskin(cutoffs, skin, sorted, selfint, bothways) ==
    [cutoffs |-> cutoffs,
     skin |-> skin,
     sorted |-> sorted,
     self_interaction |-> selfint,
     bothways |-> bothways,
     nupdates |-> 0,
     nneighbors |-> 0,
     npbcneighbors |-> 0,
     pbc |-> <<>>, cell |-> <<>>, positions |-> <<>>,
     pair_first |-> <<>>, pair_second |-> <<>>, offset_vec |-> <<>>,
     first_neigh |-> <<>>]

\* lines 429-438
NeighborList_init(cutoffs, skin, sorted, selfint, bothways) ==
    [cutoffs |-> Array([k \in 1..Len(cutoffs) |-> cutoffs[k] + skin]),
     skin |-> skin,
     sorted |-> sorted,
     self_interaction |-> selfint,
     bothways |-> bothways,
     nupdates |-> 0,
     nneighbors |-> 0,
     npbcneighbors |-> 0,
     pbc |-> <<>>, cell |-> <<>>, positions |-> <<>>,
     pair_first |-> <<>>, pair_second |-> <<>>, offset_vec |-> <<>>,
     first_neigh |-> <<>>]

\* mutant: with zero shift only i < j is kept
HalfMask_strict(pair_first, pair_second, offset_vec) ==
    Array([n \in 1..Len(pair_first) |->
        \/ pair_first[n] < pair_second[n] /\ IsZero3(offset_vec[n])
        \/ offset_vec[n][1] > 0
        \/ /\ offset_vec[n][1] = 0
           /\ \/ offset_vec[n][2] > 0
              \/ offset_vec[n][2] = 0 /\ offset_vec[n][3] > 0])

\* lines 468-475
HalfMask(pair_first, pair_second, offset_vec) ==
    Array([n \in 1..Len(pair_first) |->
        \/ pair_first[n] <= pair_second[n] /\ IsZero3(offset_vec[n])
        \/ offset_vec[n][1] > 0
        \/ /\ offset_vec[n][1] = 0
           /\ \/ offset_vec[n][2] > 0
              \/ offset_vec[n][2] = 0 /\ offset_vec[n][3] > 0])

\* lines 467-478
Halved(p, bothways) ==
    Only({
        IF bothways THEN [i |-> v.i, j |-> v.j, S |-> v.S]
        ELSE Masked3(v, HalfMask(v.i, v.j, v.S))
        : v \in {p} })

\* line 481-482: pair_first * len(pair_first) + pair_second
SortKey(pair_first, pair_second) ==
    Array([n \in 1..Len(pair_first) |->
        pair_first[n] * Len(pair_first) + pair_second[n]])

\* np.argsort of any integer array; entries with equal keys keep their order
argsort_keys(keys) ==
    LET rank(n) == Cardinality({ m \in 1..Len(keys) :
                       keys[m] < keys[n] \/ (keys[m] = keys[n] /\ m < n) })
        place == Array([n \in 1..Len(keys) |-> rank(n) + 1])
    IN  Array([r \in 1..Len(keys) |-> CHOOSE n \in 1..Len(keys) : place[n] = r])

\* lines 480-485
PairSorted(p, sorted) ==
    Only({
        IF ~sorted THEN v
        ELSE LET m == argsort_keys(SortKey(v.i, v.j))
             IN  [i |-> Take(v.i, m), j |-> Take(v.j, m), S |-> Take(v.S, m)]
             : v \in {p} })

\* lines 459-461: the snapshot, taken before neighbor_list is called
Snapshot(self, atoms) ==
    [self EXCEPT !.pbc = atoms.pbc, !.cell = atoms.cell,
                 !.positions = atoms.positions]

\* mutant: build does not count itself
Stored_uncounted(self, nat, p) ==
    Only({
        [self EXCEPT !.pair_first = v.i,
                     !.pair_second = v.j,
                     !.offset_vec = v.S,
                     !.first_neigh = first_neighbors(nat, v.i)]
                     : v \in {p} })

\* lines 463-490 once neighbor_list has returned and the pairs p are chosen
Stored(self, nat, p) ==
    Only({
        [self EXCEPT !.pair_first = v.i,
                     !.pair_second = v.j,
                     !.offset_vec = v.S,
                     !.first_neigh = first_neighbors(nat, v.i),
                     !.nupdates = @ + 1]
                     : v \in {p} })

\* lines 463-490 once the pairs p have passed the coarse cutoff of
\* neighbor_list: an exception of neighbor_list leaves the snapshot written
\* and everything else as it was
BuiltFrom(self, atoms, p) ==
    Only({
        IF raised # "none"
        THEN [self |-> Snapshot(self, atoms), raised |-> raised]
        ELSE [self |-> Stored(Snapshot(self, atoms), natoms(atoms),
                         PairSorted(
                           Halved(ExactFiltered(atoms, Radii(self.cutoffs), p),
                                  self.bothways),
                           self.sorted)),
              raised |-> "none"]
              : raised \in {IndexRaised(Radii(self.cutoffs), p)} })

\* build(atoms): the object afterwards and the exception raised ("none" when
\* build returns).  The call of neighbor_list (lines 463-465) is
\* neighbor_list_raises and neighbor_list on the same coarse pairs.
NeighborList_build(self, atoms) ==
    IF Len(self.cutoffs) = 0
    THEN [self |-> Snapshot(self, atoms), raised |-> "ValueError"]
    ELSE BuiltFrom(self, atoms,
                   CoarsePairs(atoms, Radii(self.cutoffs), self.self_interaction))

\* mutant: the displacement of the first particle only
MaxMoved2_first(old, new) ==
    Dot(VecSub(old[1], new[1]), VecSub(old[1], new[1]))

\* ((self.positions - atoms.positions)**2).sum(1).max()
MaxMoved2(old, new) ==
    SeqMax(Array([k \in 1..Len(old) |->
        Dot(VecSub(old[k], new[k]), VecSub(old[k], new[k]))]))

\* mutant: a particle that moved by exactly skin rebuilds
MustRebuild_inclusive(old_pbc, old_cell, old_positions, skin, pbc, cell, positions) ==
    \/ \E c \in Axes : old_pbc[c] # pbc[c]
    \/ \E c \in Axes, d \in Axes : old_cell[c][d] # cell[c][d]
    \/ MaxMoved2(old_positions, positions) >= skin * skin

\* lines 447-450 and 586-589: the snapshot against the arguments
MustRebuild(old_pbc, old_cell, old_positions, skin, pbc, cell, positions) ==
    \/ \E c \in Axes : old_pbc[c] # pbc[c]
    \/ \E c \in Axes, d \in Axes : old_cell[c][d] # cell[c][d]
    \/ MaxMoved2(old_positions, positions) > skin * skin

\* mutant: an update that does not rebuild takes a new snapshot
NeighborList_update_resnap(self, atoms) ==
    IF \/ self.nupdates = 0
       \/ MustRebuild(self.pbc, self.cell, self.positions, self.skin,
                      atoms.pbc, atoms.cell, atoms.positions)
    THEN Only({
             [self |-> b.self,
              rebuilt |-> IF b.raised = "none" THEN "True" ELSE b.raised]
              : b \in {NeighborList_build(self, atoms)} })
    ELSE [self |-> Snapshot(self, atoms), rebuilt |-> "False"]

\* update(atoms): the object afterwards and what the call did
NeighborList_update(self, atoms) ==
    IF \/ self.nupdates = 0
       \/ MustRebuild(self.pbc, self.cell, self.positions, self.skin,
                      atoms.pbc, atoms.cell, atoms.positions)
    THEN Only({
             [self |-> b.self,
              rebuilt |-> IF b.raised = "none" THEN "True" ELSE b.raised]
              : b \in {NeighborList_build(self, atoms)} })
    ELSE [self |-> self, rebuilt |-> "False"]

\* arr[lo:hi] for 0 <= lo, hi <= len(arr)
Slice(arr, lo, hi) == SubSeq(arr, lo + 1, hi)

\* lines 507-508
NeighborList_get_neighbors(self, k) ==
    [indices |-> Slice(self.pair_second, self.first_neigh[k + 1],
                       self.first_neigh[k + 2]),
     offsets |-> Slice(self.offset_vec, self.first_neigh[k + 1],
                       self.first_neigh[k + 2])]

----------------------------------------------------------------------------
(* PrimitiveNeighborList (lines 560-717) and LegacyNeighborList (511-558)  *)
(*                                                                         *)
(* neighbors[a] and displacements[a] are built side by side; here the two  *)
(* lists of an atom are one list of entries <<b, disp>> until build stores *)
(* them.                                                                   *)

\* lines 567-577
PrimitiveNeighborList_init(cutoffs, skin, sorted, selfint, bothways, scaled) ==
    [cutoffs |-> Array([k \in 1..Len(cutoffs) |-> cutoffs[k] + skin]),
     skin |-> skin,
     sorted |-> sorted,
     self_interaction |-> selfint,
     bothways |-> bothways,
     nupdates |-> 0,
     use_scaled_positions |-> scaled,
     nneighbors |-> 0,
     npbcneighbors |-> 0,
     pbc |-> <<>>, cell |-> <<>>, coordinates |-> <<>>,
     neighbors |-> <<>>, displacements |-> <<>>]

\* lines 609-612
rcmax_of(cutoffs) == IF Len(cutoffs) > 0 THEN SeqMax(cutoffs) ELSE 0

\* lines 625-634: N[i] = int(2 * rcmax / h) + 1 with h = |det| / |rec_c[i]|
\* on a periodic axis, 0 elsewhere
N_of(pbc, cell, rcmax) ==
    LET det == Det(cell)
        rec == rec_c(cell)
        n(k) == IF pbc[k]
                THEN TruncSqrtRatio(0, det * det,
                                    4 * rcmax * rcmax * Dot(rec[k], rec[k])) + 1
                ELSE 0
    IN  << n(1), n(2), n(3) >>

\* lines 623-636: scaled0 - scaled is -floor(scaled) on a periodic axis
offsets_of(pbc, cell, positions) ==
    LET det == Det(cell)
        rec == rec_c(cell)
        off(i, k) == IF pbc[k] THEN -FloorDiv(Dot(positions[i], rec[k]), det) ELSE 0
    IN  Array([i \in 1..Len(positions) |-> << off(i, 1), off(i, 2), off(i, 3) >>])

\* line 637
positions0_of(cell, positions, offsets) ==
    Array([i \in 1..Len(positions) |-> VecAdd(positions[i], VecMat(offsets[i], cell))])

\* lines 645-649: the (n1, n2, n3) the loops visit, in their order
HalfSpace(N) ==
    LET w2 == 2 * N[2] + 1
        w3 == 2 * N[3] + 1
        all == Array([n \in 1..((N[1] + 1) * w2 * w3) |->
                  << (n - 1) \div (w2 * w3),
                     (((n - 1) \div w3) % w2) - N[2],
                     ((n - 1) % w3) - N[3] >>])
    IN  SelectSeq(all, LAMBDA n : ~(n[1] = 0 /\ (n[2] < 0 \/ (n[2] = 0 /\ n[3] < 0))))

\* mutant: the displacement is that of the wrapped positions
HitsOf_unwrapped(self, positions0, offsets, n, k) ==
    LET d(b) == VecSub(VecAdd(positions0[b], VecMat(n, self.cell)), positions0[k])
        hit(b) == /\ Dot(d(b), d(b)) < (self.cutoffs[b] + self.cutoffs[k])
                                        * (self.cutoffs[b] + self.cutoffs[k])
                  /\ \/ ~IsZero3(n)
                     \/ IF self.self_interaction THEN b >= k ELSE b > k
        i == SelectSeq(Array([b \in 1..Len(positions0) |-> b]), hit)
    IN  Array([m \in 1..Len(i) |->
            << i[m] - 1, n >>])

\* lines 650-668 for one (n1, n2, n3) and one atom a (1-based k): the
\* entries <<b, disp>> appended to the lists of a
HitsOf(self, positions0, offsets, n, k) ==
    LET d(b) == VecSub(VecAdd(positions0[b], VecMat(n, self.cell)), positions0[k])
        hit(b) == /\ Dot(d(b), d(b)) < (self.cutoffs[b] + self.cutoffs[k])
                                        * (self.cutoffs[b] + self.cutoffs[k])
                  /\ \/ ~IsZero3(n)
                     \/ IF self.self_interaction THEN b >= k ELSE b > k
        i == SelectSeq(Array([b \in 1..Len(positions0) |-> b]), hit)
    IN  Array([m \in 1..Len(i) |->
            << i[m] - 1, VecAdd(n, VecSub(offsets[i[m]], offsets[k])) >>])

\* lines 643-668: the lists of every atom after the loops
HalfLists(self, positions0, offsets, N) ==
    LET ns == HalfSpace(N)
    IN  Array([k \in 1..Len(positions0) |->
            Flatten(Array([m \in 1..Len(ns) |->
                HitsOf(self, positions0, offsets, ns[m], k)]))])

\* lines 670-683: every entry (b, disp) of atom a adds (a, -disp) to atom b,
\* after the entries b has itself
BothWays(lists) ==
    LET mirrored(b) ==
            Flatten(Array([k \in 1..Len(lists) |->
                LET from == SelectSeq(lists[k], LAMBDA e : e[1] = b - 1)
                IN  Array([m \in 1..Len(from) |-> << k - 1, VecNeg(from[m][2]) >>])]))
    IN  Array([b \in 1..Len(lists) |-> lists[b] \o mirrored(b)])

\* lines 685-698 for the atoms a, a + 1, ... (1-based k): the entries of a
\* with a lower index go to the list of that atom, mirrored
RECURSIVE MoveLower(_, _)
MoveLower(lists, k) ==
    IF k > Len(lists) THEN lists
    ELSE LET lower == SelectSeq(lists[k], LAMBDA e : e[1] < k - 1)
             rest == SelectSeq(lists[k], LAMBDA e : ~(e[1] < k - 1))
             to(b) == SelectSeq(lower, LAMBDA e : e[1] = b - 1)
         IN  MoveLower(
                 Array([b \in 1..Len(lists) |->
                     IF b = k THEN rest
                     ELSE lists[b]
                          \o Array([m \in 1..Len(to(b)) |->
                                 << k - 1, VecNeg(to(b)[m][2]) >>])]),
                 k + 1)

\* line 660 summed: the number of entries the loops appended
CountOf(half) == Len(Flatten(half))

\* line 666 summed: the appended entries with a nonzero displacement
PbcCountOf(half) == Len(SelectSeq(Flatten(half), LAMBDA e : ~IsZero3(e[2])))

\* lines 641-700 once the lists of the loops are known
PrimitiveStored(self, half) ==
    LET both == IF self.bothways THEN BothWays(half) ELSE half
        lists == IF self.sorted THEN MoveLower(both, 1) ELSE both
    IN  [self EXCEPT
            !.nneighbors = CountOf(half),
            !.npbcneighbors = PbcCountOf(half),
            !.neighbors = Array([k \in 1..Len(lists) |->
                              Array([m \in 1..Len(lists[k]) |-> lists[k][m][1]])]),
            !.displacements = Array([k \in 1..Len(lists) |->
                              Array([m \in 1..Len(lists[k]) |-> lists[k][m][2]])]),
            !.nupdates = @ + 1]

\* lines 601-603
PrimitiveSnapshot(self, pbc, cell, coordinates) ==
    [self EXCEPT !.pbc = pbc, !.cell = cell, !.coordinates = coordinates]

\* scaled coordinates are kept multiplied by det(cell), so that they are
\* integers: np.dot(positions, pinv(cell)) * det(cell)
ScaledCoordinates(cell, positions) ==
    Array([k \in 1..Len(positions) |->
        << Dot(positions[k], rec_c(cell)[1]),
           Dot(positions[k], rec_c(cell)[2]),
           Dot(positions[k], rec_c(cell)[3]) >>])

\* lines 616-621: positions = np.dot(scaled, cell) with use_scaled_positions,
\* the coordinates themselves without
positions_of(self, cell, coordinates) ==
    IF self.use_scaled_positions
    THEN Array([k \in 1..Len(coordinates) |->
             [c \in Axes |-> VecMat(coordinates[k], cell)[c] \div Det(cell)]])
    ELSE coordinates

\* build(pbc, cell, coordinates): the object afterwards and the exception
\* raised ("none" when build returns)
PrimitiveNeighborList_build(self, pbc, cell, coordinates) ==
    IF Len(self.cutoffs) # Len(coordinates)
    THEN [self |-> PrimitiveSnapshot(self, pbc, cell, coordinates),
          raised |-> "ValueError"]
    ELSE LET positions == positions_of(self, cell, coordinates)
         IN  [self |-> PrimitiveStored(
                     PrimitiveSnapshot(self, pbc, cell, coordinates),
                     HalfLists(PrimitiveSnapshot(self, pbc, cell, coordinates),
                               positions0_of(cell, positions,
                                             offsets_of(pbc, cell, positions)),
                               offsets_of(pbc, cell, positions),
                               N_of(pbc, cell, rcmax_of(self.cutoffs)))),
              raised |-> "none"]

\* lines 579-593: the coordinates are compared as they are passed, scaled
\* ones too, with skin; on coordinates kept multiplied by det(cell) that is
\* the comparison with skin * |det(cell)|
PrimitiveNeighborList_update(self, pbc, cell, coordinates) ==
    IF \/ self.nupdates = 0
       \/ MustRebuild(self.pbc, self.cell, self.coordinates,
                      IF self.use_scaled_positions
                      THEN self.skin * Abs(Det(cell)) ELSE self.skin,
                      pbc, cell, coordinates)
    THEN Only({
             [self |-> b.self,
              rebuilt |-> IF b.raised = "none" THEN "True" ELSE b.raised]
              : b \in {PrimitiveNeighborList_build(self, pbc, cell, coordinates)} })
    ELSE [self |-> self, rebuilt |-> "False"]

\* line 717
PrimitiveNeighborList_get_neighbors(self, k) ==
    [indices |-> self.neighbors[k + 1], offsets |-> self.displacements[k + 1]]

\* lines 542-543
LegacyNeighborList_update(self, atoms) ==
    PrimitiveNeighborList_update(self, atoms.pbc, atoms.cell, atoms.positions)

----------------------------------------------------------------------------
(* Specification of the caches: a caller that constructs one cache, calls  *)
(* update and changes its Atoms object between the calls                   *)

\* four atoms on a line, periodic along it: 0 and 3 are neighbours inside
\* the cell, 1 and 0 across its boundary, 2 has no neighbour
FourAtoms ==
    [positions |-> << <<0, 0, 0>>, <<3 * CellSide - 1, 0, 0>>,
                      <<CellSide + 1, 0, 0>>, <<1, 0, 0>> >>,
     cell |-> Diag(3 * CellSide, CellSide, CellSide),
     pbc |-> <<TRUE, FALSE, FALSE>>,
     numbers |-> NumbersOf(4)]

\* one atom, or atoms next to each other, in the cubic cell, free or
\* periodic; and the four atoms
CachePositions ==
    UNION { { p \in [1..n -> {<<0, 0, 0>>, <<1, 0, 0>>, <<2, 1, 0>>} \cup ExtraSites] :
                /\ p[1] = <<0, 0, 0>>
                /\ n >= 2 => p[2] \in {<<1, 0, 0>>, <<2, 1, 0>>}
                /\ \A k \in 3..n : p[k] \in ExtraSites } : n \in 1..MaxAtoms }

CacheConfigurations ==
    { [positions |-> p, cell |-> Diag(CellSide, CellSide, CellSide), pbc |-> pbc,
       numbers |-> NumbersOf(Len(p))] :
        p \in CachePositions,
        pbc \in { <<FALSE, FALSE, FALSE>>, <<TRUE, TRUE, TRUE>> } }
      \cup { FourAtoms }

\* the same radius for every atom, or a larger one for all but atom 0
CacheRadii(n) ==
    { Array([k \in 1..n |-> 1]),
      Array([k \in 1..n |-> IF k = 1 THEN 1 ELSE MaxRadius]) }

\* the radii with the last one missing, and with one too many
WrongRadii(n) ==
    { Array([k \in 1..(n - 1) |-> 1]), Array([k \in 1..(n + 1) |-> 1]) }

Skins == { 0, 1, MaxSkin }

\* neighbor_list, first_neighbors and mic are not in use
OnlyCache ==
    /\ cutoff = Scalar(0)
    /\ self_interaction = FALSE
    /\ pc = "idle"
    /\ i_n = <<>>
    /\ j_n = <<>>
    /\ S_n = <<>>
    /\ dr_nc = <<>>
    /\ abs_dr_n = <<>>
    /\ FNIdle
    /\ MicIdle

\* the caller has constructed nl = NeighborList(r, skin, sorted, selfint,
\* bothways) or nl = LegacyNeighborList(...) with the same arguments
Constructed(r, skin, sorted, selfint, bothways) ==
    /\ impl \in { "NeighborList", "LegacyNeighborList" }
    /\ radii = r
    /\ nl = NeighborList_init(r, skin, sorted, selfint, bothways)
    /\ pnl = PrimitiveNeighborList_init(r, skin, sorted, selfint, bothways, FALSE)
    /\ rebuilt = "none"
    /\ nmoves = 0

\* a cache with the default sorted = False and self_interaction = True
CacheInit ==
    /\ a \in CacheConfigurations
    /\ \E r \in CacheRadii(natoms(a)), skin \in Skins, bothways \in BOOLEAN :
          Constructed(r, skin, FALSE, TRUE, bothways)
    /\ OnlyCache

\* a cache with any flags, and with radii for the wrong number of atoms
BuildInit ==
    /\ a \in CacheConfigurations
    /\ \E r \in CacheRadii(natoms(a)) \cup WrongRadii(natoms(a)), skin \in {0, 1},
          sorted \in BOOLEAN, selfint \in BOOLEAN, bothways \in BOOLEAN :
          Constructed(r, skin, sorted, selfint, bothways)
    /\ OnlyCache

\* nl.update(atoms) on a NeighborList
NLUpdate ==
    /\ impl = "NeighborList"
    /\ \E ret \in { NeighborList_update(nl, a) } :
        /\ nl' = ret.self
        /\ rebuilt' = ret.rebuilt
    /\ UNCHANGED <<impl, radii, pnl, nmoves, nlvars, fnvars, micvars>>

\* nl.update(atoms) on a LegacyNeighborList
PNLUpdate ==
    /\ impl = "LegacyNeighborList"
    /\ \E ret \in { LegacyNeighborList_update(pnl, a) } :
        /\ pnl' = ret.self
        /\ rebuilt' = ret.rebuilt
    /\ UNCHANGED <<impl, radii, nl, nmoves, nlvars, fnvars, micvars>>

\* mutant: build keeps a reference to the caller's array
np_array_reference(stored, written) == written

\* np.array(x, copy=True) of lines 459-461 and 601-603, seen after the
\* caller has changed x in place: stored is what the cache took at build,
\* written is what x holds now.  A copy shares no memory with x.
np_array(stored, written) == stored

\* the NeighborList after the caller has changed the arrays it passed to
\* build to those of atoms (before any build there is no snapshot)
SnapshotAfterWrite(self, atoms) ==
    IF self.pbc = <<>> THEN self
    ELSE [self EXCEPT !.pbc = np_array(@, atoms.pbc),
                      !.cell = np_array(@, atoms.cell),
                      !.positions = np_array(@, atoms.positions)]

\* the same for the PrimitiveNeighborList inside a LegacyNeighborList
PrimitiveSnapshotAfterWrite(self, atoms) ==
    IF self.pbc = <<>> THEN self
    ELSE [self EXCEPT !.pbc = np_array(@, atoms.pbc),
                      !.cell = np_array(@, atoms.cell),
                      !.coordinates = np_array(@, atoms.positions)]

\* the caller changes the arrays of its Atoms object in place to atoms, at
\* most so many times
MovedWithin(atoms, most) ==
    /\ nmoves < most
    /\ nmoves' = nmoves + 1
    /\ a' = atoms
    /\ nl' = SnapshotAfterWrite(nl, atoms)
    /\ pnl' = PrimitiveSnapshotAfterWrite(pnl, atoms)
    /\ UNCHANGED <<impl, radii, rebuilt, cutoff, self_interaction, pc,
                   i_n, j_n, S_n, dr_nc, abs_dr_n, fnvars, micvars>>

Moved(atoms) == MovedWithin(atoms, MaxMoves)

\* the caller moves the last atom by one step along x
MoveAtom == Moved([a EXCEPT !.positions[natoms(a)] = VecAdd(@, <<1, 0, 0>>)])

\* the caller switches the periodicity of the first axis
SetPbc == Moved([a EXCEPT !.pbc[1] = ~@])

\* the caller stretches the cell along the last axis
SetCell == Moved([a EXCEPT !.cell[3][3] = @ + 1])

CacheNext == NLUpdate \/ PNLUpdate \/ MoveAtom \/ SetPbc \/ SetCell

SpecCache == CacheInit /\ [][CacheNext]_vars

BuildNext == NLUpdate \/ PNLUpdate

SpecBuild == BuildInit /\ [][BuildNext]_vars

----------------------------------------------------------------------------
(* What the claims are stated in: the returned triples and the geometry of *)
(* the caller's configuration, computed from a alone                       *)

Returned == pc = "returned"

AtomIds == 0..(natoms(a) - 1)

Entries == 1..Len(i_n)

Triples == { <<i_n[n], j_n[n], S_n[n]>> : n \in Entries }

\* pos[j] - pos[i] + S . cell on the caller's positions, and its squared norm
Displacement(i, j, S) ==
    VecAdd(VecSub(a.positions[j + 1], a.positions[i + 1]), VecMat(S, a.cell))

Dist2(i, j, S) == Dot(Displacement(i, j, S), Displacement(i, j, S))

\* S has no component on a non-periodic axis
Allowed(S) == \A c \in Axes : a.pbc[c] \/ S[c] = 0

\* |x| + |y| + |z|, an upper bound of the Euclidean norm
Norm1(u) == Abs(u[1]) + Abs(u[2]) + Abs(u[3])

\* Every allowed shift S for which some pair of atoms can be closer than reach.
\* |S[k]| * face_dist_c[k] <= |S . cell| < reach + |pos[j] - pos[i]|, so S[k] is
\* at most TruncSqrtRatio(0, det^2, (reach + sep)^2 * |rec_c[k]|^2).
ShiftBox(reach) ==
    LET sep == SeqMax(Array([n \in 1..(natoms(a) * natoms(a)) |->
                   Norm1(VecSub(a.positions[((n - 1) \div natoms(a)) + 1],
                                a.positions[((n - 1) % natoms(a)) + 1]))]))
        det == Det(a.cell)
        rec == rec_c(a.cell)
        most(k) == IF a.pbc[k]
                   THEN TruncSqrtRatio(0, det * det,
                            (reach + sep) * (reach + sep) * Dot(rec[k], rec[k]))
                   ELSE 0
    IN  { <<sx, sy, sz>> : sx \in -most(1)..most(1),
                           sy \in -most(2)..most(2),
                           sz \in -most(3)..most(3) }

\* the self-pair rule: (i, i, 0) is a pair only with self_interaction
PassesSelfRule(i, j, S) == self_interaction \/ i # j \/ ~IsZero3(S)

\* some atom lies outside the cell along axis k (its scaled coordinate is
\* below 0 or at least 1)
OutsideCell(i, k) ==
    LET s == Dot(a.positions[i + 1], rec_c(a.cell)[k])
        det == Det(a.cell)
    IN  FloorDiv(s, det) # 0

----------------------------------------------------------------------------
(* Claims about neighbor_list *)

\* C1: completeness with a scalar cutoff c > 0.  Every triple (i, j, S) with
\* S zero on the non-periodic axes, other than (i, i, 0), whose distance
\* |pos[j] - pos[i] + S.cell| is below c is in the returned list.
C1_Completeness ==
    (Returned /\ cutoff.kind = "scalar") =>
        \A i \in AtomIds, j \in AtomIds, S \in ShiftBox(cutoff.c) :
            (/\ Allowed(S)
             /\ ~(i = j /\ IsZero3(S))
             /\ Dist2(i, j, S) < cutoff.c * cutoff.c)
                => <<i, j, S>> \in Triples

\* a returned pair of two atoms, one of them outside the cell on a periodic
\* axis, that has a further image within the cutoff (cutoff above the cell)
C1_Witness ==
    /\ Returned /\ cutoff.kind = "scalar"
    /\ \E n \in Entries, m \in Entries, k \in Axes :
          /\ i_n[n] # j_n[n]
          /\ i_n[m] = i_n[n] /\ j_n[m] = j_n[n] /\ S_n[m] # S_n[n]
          /\ Abs(S_n[n][k]) >= 2
          /\ a.pbc[k] /\ OutsideCell(i_n[n], k)

\* C2: distance bound with a scalar cutoff c.  Every returned pair is
\* strictly closer than c; a pair at distance exactly c is not returned.
C2_DistanceBound ==
    (Returned /\ cutoff.kind = "scalar") =>
        /\ \A n \in Entries :
              Dist2(i_n[n], j_n[n], S_n[n]) < cutoff.c * cutoff.c
        /\ \A i \in AtomIds, j \in AtomIds, S \in ShiftBox(cutoff.c) :
              Dist2(i, j, S) = cutoff.c * cutoff.c => <<i, j, S>> \notin Triples

\* a call that returned pairs while an allowed pair lies at distance c exactly
C2_Witness ==
    /\ Returned /\ cutoff.kind = "scalar"
    /\ Entries # {}
    /\ \E i \in AtomIds, j \in AtomIds, S \in ShiftBox(cutoff.c) :
          /\ Allowed(S) /\ i # j
          /\ Dist2(i, j, S) = cutoff.c * cutoff.c

\* C3: symmetry.  For every returned (i, j, S), with any kind of cutoff, the
\* mirror (j, i, -S) is returned too, with the same distance and the
\* displacement negated.
C3_Symmetry ==
    Returned =>
        \A n \in Entries :
            \E m \in Entries :
                /\ i_n[m] = j_n[n]
                /\ j_n[m] = i_n[n]
                /\ S_n[m] = VecNeg(S_n[n])
                /\ abs_dr_n[m] = abs_dr_n[n]
                /\ dr_nc[m] = VecNeg(dr_nc[n])

\* per-atom radii that differ, and a returned pair of two atoms across a
\* cell boundary
C3_Witness ==
    /\ Returned /\ cutoff.kind = "array"
    /\ \E n \in Entries :
          /\ i_n[n] # j_n[n]
          /\ ~IsZero3(S_n[n])
          /\ cutoff.r[i_n[n] + 1] # cutoff.r[j_n[n] + 1]

\* C4: the self-pair rule.  Without self_interaction no (i, i, 0) is
\* returned; with self_interaction and a scalar cutoff > 0 exactly one entry
\* (i, i, 0) is returned for every atom i; either way the periodic
\* self-images (i, i, S # 0) within a scalar cutoff are returned.  One atom
\* in a fully periodic cubic cell of side s with s < cutoff <= s * sqrt(2)
\* has, besides (0, 0, 0), exactly the six unit-shift self-images, at
\* distance s.
UnitShift(S) == Abs(S[1]) + Abs(S[2]) + Abs(S[3]) = 1

ScenarioB ==
    /\ natoms(a) = 1
    /\ a.pbc = <<TRUE, TRUE, TRUE>>
    /\ a.cell = Diag(a.cell[1][1], a.cell[1][1], a.cell[1][1])
    /\ cutoff.kind = "scalar"
    /\ a.cell[1][1] * a.cell[1][1] < cutoff.c * cutoff.c
    /\ cutoff.c * cutoff.c <= 2 * a.cell[1][1] * a.cell[1][1]

C4_SelfPairs ==
    Returned =>
        /\ ~self_interaction =>
              \A n \in Entries : ~(i_n[n] = j_n[n] /\ IsZero3(S_n[n]))
        /\ (self_interaction /\ cutoff.kind = "scalar") =>
              \A i \in AtomIds :
                  Cardinality({ n \in Entries :
                      i_n[n] = i /\ j_n[n] = i /\ IsZero3(S_n[n]) }) = 1
        /\ cutoff.kind = "scalar" =>
              \A i \in AtomIds, S \in ShiftBox(cutoff.c) :
                  (Allowed(S) /\ ~IsZero3(S) /\ Dist2(i, i, S) < cutoff.c * cutoff.c)
                      => <<i, i, S>> \in Triples
        /\ ScenarioB =>
              LET images == { n \in Entries : ~IsZero3(S_n[n]) }
              IN  /\ Cardinality(images) = 6
                  /\ Cardinality({ S_n[n] : n \in images }) = 6
                  /\ \A n \in images :
                        /\ UnitShift(S_n[n])
                        /\ abs_dr_n[n] = a.cell[1][1] * a.cell[1][1]
                  /\ Len(i_n) = IF self_interaction THEN 7 ELSE 6

\* the single atom in the periodic cube, called without self_interaction
C4_Witness ==
    /\ Returned /\ ScenarioB /\ ~self_interaction
    /\ Len(i_n) = 6

\* C5: non-periodic boundary.  On every axis c with pbc[c] = false every
\* returned shift has component 0, also for atoms outside the cell along c.
C5_NonPeriodic ==
    Returned =>
        \A n \in Entries, c \in Axes : ~a.pbc[c] => S_n[n][c] = 0

\* a returned pair with an atom outside the cell along a non-periodic axis
C5_Witness ==
    /\ Returned
    /\ \E n \in Entries, c \in Axes :
          /\ ~a.pbc[c]
          /\ i_n[n] # j_n[n]
          /\ OutsideCell(i_n[n], c)

\* C6: pair-record consistency.  The returned arrays have equal length, and
\* for every entry n the displacement is pos[j] - pos[i] + S.cell on the
\* caller's unwrapped positions and the squared distance is D.D.
C6_PairRecord ==
    Returned =>
        /\ Len(j_n) = Len(i_n) /\ Len(S_n) = Len(i_n)
        /\ Len(dr_nc) = Len(i_n) /\ Len(abs_dr_n) = Len(i_n)
        /\ \A n \in Entries :
              /\ dr_nc[n] = Displacement(i_n[n], j_n[n], S_n[n])
              /\ abs_dr_n[n] = Dot(dr_nc[n], dr_nc[n])

\* a returned pair whose first atom was wrapped into the cell on a periodic
\* axis and whose shift is not zero
C6_Witness ==
    /\ Returned
    /\ \E n \in Entries, k \in Axes :
          /\ i_n[n] # j_n[n]
          /\ a.pbc[k] /\ OutsideCell(i_n[n], k)
          /\ S_n[n][k] # 0

\* C7: per-atom radii r.  (i, j, S) is returned if and only if it passes the
\* self-pair and non-periodic rules and its distance is below r[i] + r[j];
\* the coarse filter at 2 * max(r) removes no such pair.
RadiusSum(i, j) == cutoff.r[i + 1] + cutoff.r[j + 1]

C7_PerAtomRadii ==
    (Returned /\ cutoff.kind = "array") =>
        /\ \A n \in Entries :
              /\ Allowed(S_n[n])
              /\ PassesSelfRule(i_n[n], j_n[n], S_n[n])
              /\ Dist2(i_n[n], j_n[n], S_n[n])
                    < RadiusSum(i_n[n], j_n[n]) * RadiusSum(i_n[n], j_n[n])
        /\ \A i \in AtomIds, j \in AtomIds, S \in ShiftBox(2 * SeqMax(cutoff.r)) :
              (/\ Allowed(S)
               /\ PassesSelfRule(i, j, S)
               /\ Dist2(i, j, S) < RadiusSum(i, j) * RadiusSum(i, j))
                  => <<i, j, S>> \in Triples

\* a returned pair of two atoms with different radii that is not closer
\* than twice the smaller radius
C7_Witness ==
    /\ Returned /\ cutoff.kind = "array"
    /\ \E n \in Entries :
          /\ i_n[n] # j_n[n]
          /\ cutoff.r[i_n[n] + 1] < cutoff.r[j_n[n] + 1]
          /\ abs_dr_n[n] >= 4 * cutoff.r[i_n[n] + 1] * cutoff.r[i_n[n] + 1]

\* C8: pair-cutoff mapping.  A pair is returned if and only if its distance
\* is strictly below the value mapped to the unordered pair of its species;
\* writing every key (A, B) as (B, A) changes nothing; a pair at exactly its
\* cutoff and a pair whose species pair has no entry are not returned.
KeyNumber(el) == IF el[1] = "num" THEN el[2] ELSE atomic_numbers[el[2]]

\* the value mapped to {z1, z2}, 0 when there is none
MappedCutoff(z1, z2) ==
    LET hits == { n \in 1..Len(cutoff.d) :
                    {KeyNumber(cutoff.d[n][1]), KeyNumber(cutoff.d[n][2])} = {z1, z2} }
    IN  IF hits = {} THEN 0 ELSE cutoff.d[CHOOSE n \in hits : TRUE][3]

PairCutoff(i, j) == MappedCutoff(a.numbers[i + 1], a.numbers[j + 1])

SwapKeys(d) == Array([n \in 1..Len(d) |-> << d[n][2], d[n][1], d[n][3] >>])

C8_PairCutoffs ==
    (Returned /\ cutoff.kind = "dict") =>
        /\ \A n \in Entries :
              /\ Allowed(S_n[n])
              /\ PassesSelfRule(i_n[n], j_n[n], S_n[n])
              /\ PairCutoff(i_n[n], j_n[n]) > 0
              /\ Dist2(i_n[n], j_n[n], S_n[n])
                    < PairCutoff(i_n[n], j_n[n]) * PairCutoff(i_n[n], j_n[n])
        /\ \A i \in AtomIds, j \in AtomIds, S \in ShiftBox(max_cutoff_of(cutoff)) :
              (/\ Allowed(S)
               /\ PassesSelfRule(i, j, S)
               /\ Dist2(i, j, S) < PairCutoff(i, j) * PairCutoff(i, j))
                  => <<i, j, S>> \in Triples
        /\ neighbor_list(a, PairDict(SwapKeys(cutoff.d)), self_interaction)
              = [i |-> i_n, j |-> j_n, S |-> S_n, D |-> dr_nc, d |-> abs_dr_n]

\* both orders of a mixed pair are returned, a mixed pair at exactly its
\* cutoff is left out, and so is a pair of two hydrogens (no entry) that is
\* closer than the largest cutoff
C8_Witness ==
    /\ Returned /\ cutoff.kind = "dict"
    /\ \E n \in Entries, m \in Entries :
          /\ a.numbers[i_n[n] + 1] = 1 /\ a.numbers[j_n[n] + 1] = 6
          /\ a.numbers[i_n[m] + 1] = 6 /\ a.numbers[j_n[m] + 1] = 1
    /\ \E i \in AtomIds, j \in AtomIds, S \in ShiftBox(max_cutoff_of(cutoff)) :
          /\ Allowed(S) /\ i # j
          /\ Dist2(i, j, S) = PairCutoff(i, j) * PairCutoff(i, j)
    /\ \E i \in AtomIds, S \in ShiftBox(max_cutoff_of(cutoff)) :
          /\ Allowed(S) /\ ~IsZero3(S)
          /\ a.numbers[i + 1] = 1
          /\ Dist2(i, i, S) < max_cutoff_of(cutoff) * max_cutoff_of(cutoff)

\* C9: first-index order.  For every kind of cutoff the returned first-index
\* array is non-decreasing.
C9_FirstIndexOrder ==
    Returned =>
        \A n \in Entries : n < Len(i_n) => i_n[n] <= i_n[n + 1]

\* both atoms have several entries left after the exact cutoff of a mapping
\* has removed others
C9_Witness ==
    /\ Returned /\ cutoff.kind = "dict"
    /\ Cardinality({ n \in Entries : i_n[n] = 0 }) >= 2
    /\ Cardinality({ n \in Entries : i_n[n] = 1 }) >= 2

----------------------------------------------------------------------------
(* Claims about first_neighbors *)

\* C10: CSR completeness.  For every nat and every non-decreasing i with
\* values in [0, nat), the result s has length nat + 1, s[0] = 0,
\* s[nat] = len(i), s is non-decreasing, and for every atom k the slice
\* [s[k], s[k+1]) holds exactly the positions n with i[n] = k.
C10_CSR ==
    fn_pc = "returned" =>
        /\ Len(fn_s) = fn_nat + 1
        /\ fn_s[1] = 0
        /\ fn_s[fn_nat + 1] = Len(fn_i)
        /\ \A e \in 1..fn_nat : fn_s[e] <= fn_s[e + 1]
        /\ \A k \in 0..(fn_nat - 1) :
              { n \in 0..(Len(fn_i) - 1) : fn_s[k + 1] <= n /\ n < fn_s[k + 2] }
                  = { n \in 0..(Len(fn_i) - 1) : fn_i[n + 1] = k }

\* atoms without pairs at the start, in the middle and at the end
C10_Witness ==
    /\ fn_pc = "returned"
    /\ Len(fn_i) >= 2
    /\ fn_i[1] > 0
    /\ fn_i[Len(fn_i)] < fn_nat - 1
    /\ \E k \in 0..(fn_nat - 1) :
          /\ fn_i[1] < k /\ k < fn_i[Len(fn_i)]
          /\ \A n \in 1..Len(fn_i) : fn_i[n] # k

----------------------------------------------------------------------------
(* What the claims about the caches are stated in                          *)

\* the cache the caller holds
Cache == IF impl = "NeighborList" THEN nl ELSE pnl

\* the positions of the last snapshot
SnapshotPositions == IF impl = "NeighborList" THEN nl.positions ELSE pnl.coordinates

\* what nl.update(atoms) does when it is called now
UpdateNow ==
    IF impl = "NeighborList" THEN NeighborList_update(nl, a)
    ELSE LegacyNeighborList_update(pnl, a)

\* a step in which nl.update(atoms) changed the cache or returned another
\* value than the call before it
UpdateStep == nl' # nl \/ pnl' # pnl \/ rebuilt' # rebuilt

\* the atoms are as the last snapshot recorded them
AsSnapshot ==
    /\ Cache.pbc = a.pbc
    /\ Cache.cell = a.cell
    /\ SnapshotPositions = a.positions

----------------------------------------------------------------------------
\* C11: on a freshly constructed cache the first update builds and returns
\* True, and nupdates becomes 1; as long as the caller has not changed
\* positions, cell or pbc, every following update returns False and leaves
\* the cache, and so nupdates = 1, as it is.
C11_RebuildIdempotence ==
    /\ [](Cache.nupdates = 0 =>
            /\ rebuilt = "none"
            /\ \A u \in {UpdateNow} : u.rebuilt = "True" /\ u.self.nupdates = 1)
    /\ []((Cache.nupdates > 0 /\ nmoves = 0) =>
            /\ Cache.nupdates = 1
            /\ AsSnapshot
            /\ \A u \in {UpdateNow} : u.rebuilt = "False" /\ u.self = Cache)
    /\ [][UpdateStep =>
            IF Cache.nupdates = 0
            THEN rebuilt' = "True" /\ Cache'.nupdates = 1
            ELSE nmoves = 0 => (rebuilt' = "False" /\ Cache' = Cache)]_vars

\* update has been called at least twice on unchanged atoms, the list it
\* built is not empty
C11_Witness ==
    /\ nmoves = 0
    /\ Cache.nupdates = 1
    /\ rebuilt = "False"
    /\ IF impl = "NeighborList" THEN Len(nl.pair_first) > 0
       ELSE \E k \in 1..Len(pnl.neighbors) : Len(pnl.neighbors[k]) > 0

----------------------------------------------------------------------------
\* the squared distance of particle k (1-based) from its snapshot position
Moved2(k) ==
    Dot(VecSub(a.positions[k], SnapshotPositions[k]),
        VecSub(a.positions[k], SnapshotPositions[k]))

\* some pbc flag or cell entry differs from the snapshot, or some particle is
\* farther than skin from its snapshot position
Criterion ==
    \/ \E c \in Axes : Cache.pbc[c] # a.pbc[c]
    \/ \E c \in Axes, d \in Axes : Cache.cell[c][d] # a.cell[c][d]
    \/ \E k \in 1..natoms(a) : Moved2(k) > Cache.skin * Cache.skin

\* C12: after at least one build, NeighborList.update rebuilds and returns
\* True if and only if a pbc flag or a cell entry differs from the snapshot or
\* a particle has moved farther than skin; at a displacement equal to skin it
\* returns False and leaves the object as it is.
C12_RebuildCriterion ==
    /\ []((impl = "NeighborList" /\ nl.nupdates > 0) =>
            \A u \in {NeighborList_update(nl, a)} :
                /\ Criterion <=> u.rebuilt = "True"
                /\ Criterion <=> u.self.nupdates = nl.nupdates + 1
                /\ ~Criterion => (u.rebuilt = "False" /\ u.self = nl))
    /\ [][(impl = "NeighborList" /\ nl.nupdates > 0 /\ UpdateStep) =>
            /\ Criterion <=> rebuilt' = "True"
            /\ Criterion <=> nl'.nupdates = nl.nupdates + 1
            /\ ~Criterion => (rebuilt' = "False" /\ nl' = nl)]_vars

\* a particle is exactly skin > 0 away from its snapshot position and the
\* last update returned False
C12_Witness ==
    /\ impl = "NeighborList"
    /\ nl.nupdates > 0
    /\ nl.skin > 0
    /\ rebuilt = "False"
    /\ ~Criterion
    /\ \E k \in 1..natoms(a) : Moved2(k) = nl.skin * nl.skin

----------------------------------------------------------------------------
\* the entries (first index, second index, shift) the cache holds
CachedTriples ==
    IF impl = "NeighborList"
    THEN { << nl.pair_first[n], nl.pair_second[n], nl.offset_vec[n] >> :
             n \in 1..Len(nl.pair_first) }
    ELSE UNION { { << k - 1, pnl.neighbors[k][m], pnl.displacements[k][m] >> :
                     m \in 1..Len(pnl.neighbors[k]) } : k \in 1..Len(pnl.neighbors) }

\* the radius the cache was constructed with for atom i (0-based)
Nominal(i) == radii[i + 1]

\* the squared distance of the pair at the snapshot
SnapshotDist2(i, j, S) ==
    LET d == VecAdd(VecSub(SnapshotPositions[j + 1], SnapshotPositions[i + 1]),
                    VecMat(S, Cache.cell))
    IN  Dot(d, d)

\* the pairs that are neighbours now within the nominal radii
NominalPairs ==
    { t \in AtomIds \X AtomIds \X ShiftBox(2 * SeqMax(radii)) :
        /\ Cache.self_interaction \/ t[1] # t[2] \/ ~IsZero3(t[3])
        /\ LessThan(Dist2(t[1], t[2], t[3]), Nominal(t[1]) + Nominal(t[2])) }

\* cell and pbc are the snapshot's and every particle is closer than skin / 2
\* to its snapshot position
WithinHalfSkin ==
    /\ Cache.nupdates > 0
    /\ Cache.pbc = a.pbc
    /\ Cache.cell = a.cell
    /\ \A k \in 1..natoms(a) : 4 * Moved2(k) < Cache.skin * Cache.skin

\* C13: while cell and pbc are those of the last build and every particle is
\* strictly closer than skin / 2 to its position at that build, update returns
\* False, and every pair (i, j, S) whose current distance is below the nominal
\* r[i] + r[j] is in the cached list: as (i, j, S) with bothways, as (i, j, S)
\* or (j, i, -S) without.
C13_SkinTolerance ==
    WithinHalfSkin =>
        /\ \A u \in {UpdateNow} : u.rebuilt = "False" /\ u.self = Cache
        /\ \A t \in NominalPairs :
              IF Cache.bothways THEN t \in CachedTriples
              ELSE \/ t \in CachedTriples
                   \/ << t[2], t[1], VecNeg(t[3]) >> \in CachedTriples

\* a particle has moved by less than skin / 2, update has returned False, and
\* a pair that was not within the nominal radii at the build is within them now
C13_Witness ==
    /\ WithinHalfSkin
    /\ rebuilt = "False"
    /\ \E k \in 1..natoms(a) : Moved2(k) > 0
    /\ \E t \in NominalPairs :
          ~LessThan(SnapshotDist2(t[1], t[2], t[3]), Nominal(t[1]) + Nominal(t[2]))

----------------------------------------------------------------------------
\* the stored entries with first index k (0-based), in their stored order
StoredOf(k) ==
    LET at == SelectSeq(Array([n \in 1..Len(nl.pair_first) |-> n]),
                        LAMBDA n : nl.pair_first[n] = k)
    IN  [indices |-> Array([m \in 1..Len(at) |-> nl.pair_second[at[m]]]),
         offsets |-> Array([m \in 1..Len(at) |-> nl.offset_vec[at[m]]])]

\* C14: after a successful build of a NeighborList, whatever its flags and
\* the numbers of particles and pairs, get_neighbors(k) returns exactly the
\* stored (second index, shift) entries whose first index is k, for every
\* particle k.
C14_LookupCorrectness ==
    (impl = "NeighborList" /\ nl.nupdates > 0) =>
        \A k \in AtomIds : NeighborList_get_neighbors(nl, k) = StoredOf(k)

----------------------------------------------------------------------------
\* C15: with sorted = True, after NeighborList.build the stored pairs are in
\* the order of their first index and, where that is equal, of their second
\* index, whether there are more pairs than particles or fewer.
C15_SortedOption ==
    (impl = "NeighborList" /\ nl.nupdates > 0 /\ nl.sorted) =>
        \A n \in 1..(Len(nl.pair_first) - 1) :
            \/ nl.pair_first[n] < nl.pair_first[n + 1]
            \/ /\ nl.pair_first[n] = nl.pair_first[n + 1]
               /\ nl.pair_second[n] <= nl.pair_second[n + 1]

----------------------------------------------------------------------------
\* the triples of the full list that build gets from neighbor_list
FullTriples ==
    LET p == neighbor_list(a, Radii(nl.cutoffs), nl.self_interaction)
    IN  { << p.i[n], p.j[n], p.S[n] >> : n \in 1..Len(p.i) }

Mirror(t) == << t[2], t[1], VecNeg(t[3]) >>

\* zero shift and i <= j, or the first nonzero shift component is positive
Canonical(t) ==
    IF IsZero3(t[3]) THEN t[1] <= t[2]
    ELSE \E c \in Axes : t[3][c] > 0 /\ \A d \in 1..(c - 1) : t[3][d] = 0

\* C16: with bothways = False, NeighborList.build stores exactly one member of
\* every mirror pair {(i, j, S), (j, i, -S)} of the full list, each once: with
\* S = 0 the one with i <= j, otherwise the one whose first nonzero shift
\* component is positive; a self pair (i, i, 0) is stored once.
C16_HalfList ==
    (impl = "NeighborList" /\ nl.nupdates > 0 /\ ~nl.bothways) =>
        \A full \in {FullTriples} :
            /\ CachedTriples = { t \in full : Canonical(t) }
            /\ Len(nl.pair_first) = Cardinality(CachedTriples)
            /\ \A t \in full :
                  /\ Mirror(t) \in full
                  /\ Mirror(t) # t => (t \in CachedTriples <=> Mirror(t) \notin CachedTriples)
                  /\ Mirror(t) = t => t \in CachedTriples

\* a half list that holds a self pair (i, i, 0) and a pair across the cell
\* boundary whose first index is the larger one
C16_Witness ==
    /\ impl = "NeighborList"
    /\ nl.nupdates > 0
    /\ ~nl.bothways
    /\ \E t \in CachedTriples : t[1] = t[2] /\ IsZero3(t[3])
    /\ \E t \in CachedTriples : t[1] > t[2] /\ ~IsZero3(t[3])
    /\ \E t \in CachedTriples : t[1] < t[2] /\ IsZero3(t[3])

----------------------------------------------------------------------------
\* nl.get_neighbors(k) on the cache the caller holds
GetNeighbors(k) ==
    IF impl = "NeighborList" THEN NeighborList_get_neighbors(nl, k)
    ELSE PrimitiveNeighborList_get_neighbors(pnl, k)

\* the atoms get_neighbors(k) gives as neighbours
NeighborsOf(k) == { GetNeighbors(k).indices[m] : m \in 1..Len(GetNeighbors(k).indices) }

\* C17: with bothways = False, if get_neighbors(x) gives another atom y as a
\* neighbour then get_neighbors(y) does not give x, under any shift, also in
\* a periodic cell that is smaller than the cutoff.
C17_OneWay ==
    (Cache.nupdates > 0 /\ ~Cache.bothways) =>
        \A x \in AtomIds, y \in AtomIds :
            (x # y /\ y \in NeighborsOf(x)) => x \notin NeighborsOf(y)

----------------------------------------------------------------------------
\* the entries (neighbour, shift) get_neighbors(k) returns
EntriesOf(k) ==
    { << GetNeighbors(k).indices[m], GetNeighbors(k).offsets[m] >> :
        m \in 1..Len(GetNeighbors(k).indices) }

\* C18: with bothways = True, for NeighborList and PrimitiveNeighborList and
\* every sorted and self_interaction, whenever (y, S) is in get_neighbors(x)
\* then (x, -S) is in get_neighbors(y).
C18_FullListSymmetry ==
    (Cache.nupdates > 0 /\ Cache.bothways) =>
        \A x \in AtomIds : \A e \in EntriesOf(x) :
            << x, VecNeg(e[2]) >> \in EntriesOf(e[1])

----------------------------------------------------------------------------
\* the shifts of all entries that get_neighbors serves, atom after atom
ServedShifts ==
    Flatten(Array([k \in 1..natoms(a) |-> GetNeighbors(k - 1).offsets]))

\* C19: after every successful build of a NeighborList or a
\* PrimitiveNeighborList, nupdates has increased by one, nneighbors is the
\* number of entries the cache serves through get_neighbors and npbcneighbors
\* is the number of those entries whose shift is not zero.
C19_BuildStatistics ==
    /\ []((Cache.nupdates > 0 /\ Len(radii) = natoms(a)) =>
            /\ Cache.nneighbors = Len(ServedShifts)
            /\ Cache.npbcneighbors =
                   Len(SelectSeq(ServedShifts, LAMBDA S : ~IsZero3(S))))
    /\ [][(UpdateStep /\ rebuilt' = "True") =>
            Cache'.nupdates = Cache.nupdates + 1]_vars

----------------------------------------------------------------------------
\* the cache holds no neighbour list
NothingStored ==
    /\ Cache.nupdates = 0
    /\ IF impl = "NeighborList"
       THEN nl.pair_first = <<>> /\ nl.pair_second = <<>> /\ nl.offset_vec = <<>>
       ELSE pnl.neighbors = <<>> /\ pnl.displacements = <<>>

\* C20: when the number of radii differs from the number of particles, by
\* being smaller or larger, neighbor_list, NeighborList.build and
\* PrimitiveNeighborList.build end in an error, and no neighbour list is
\* returned or stored.
C20_DimensionMismatch ==
    Len(radii) # natoms(a) =>
        /\ rebuilt \in { "none", "ValueError", "IndexError" }
        /\ NothingStored
        /\ (impl = "NeighborList" /\ rebuilt # "none") =>
              neighbor_list_raises(a, Radii(nl.cutoffs), nl.self_interaction) # "none"

----------------------------------------------------------------------------
(* neighbor_list on degenerate and invalid inputs *)

\* no atom at all, in every cell and with every pbc mask
EmptyConfigurations ==
    { [positions |-> <<>>, cell |-> cell, pbc |-> pbc, numbers |-> <<>>] :
        cell \in Cells, pbc \in PbcMasks }

\* a negative scalar cutoff; per-atom radii of which the first, or every one,
\* is negative; a dict with a key that names the species 'Xx', which
\* ase.data.atomic_numbers does not know
NegativeScalars == { Scalar(-c) : c \in 1..MaxCutoff }

NegativeRadii(n) ==
    { Radii([k \in 1..n |-> IF k = 1 THEN -p ELSE q]) :
        p \in 1..MaxRadius, q \in {-1, MaxRadius} }

UnknownSpeciesDicts ==
    { PairDict(<< << <<"sym", "H">>, <<"sym", "Xx">>, v >> >>) : v \in {1, MaxCutoff} }
      \cup { PairDict(<< << <<"sym", "Xx">>, <<"sym", "C">>, MaxCutoff >>,
                         << <<"sym", "H">>, <<"sym", "C">>, 2 >> >>) }

InvalidCutoffs(n) ==
    NegativeScalars \cup UnknownSpeciesDicts
      \cup (IF n = 0 THEN {} ELSE NegativeRadii(n))

\* the call of neighbor_list with its two outcomes: the arrays are returned,
\* or the call ends in the exception pc names and nothing is returned
CallOrRaise(cut, si) ==
    /\ pc = "idle"
    /\ cutoff' = cut
    /\ self_interaction' = si
    /\ UNCHANGED <<a, fnvars, cachevars, micvars>>
    /\ \E raised \in { neighbor_list_raises(a, cut, si) } :
        IF raised # "none"
        THEN /\ pc' = raised
             /\ UNCHANGED <<i_n, j_n, S_n, dr_nc, abs_dr_n>>
        ELSE \E ret \in { neighbor_list(a, cut, si) } :
                /\ i_n' = ret.i
                /\ j_n' = ret.j
                /\ S_n' = ret.S
                /\ dr_nc' = ret.D
                /\ abs_dr_n' = ret.d
                /\ pc' = "returned"

EdgeInit ==
    /\ a \in Configurations \cup EmptyConfigurations
    /\ cutoff = Scalar(0)
    /\ self_interaction = FALSE
    /\ pc = "idle"
    /\ i_n = <<>>
    /\ j_n = <<>>
    /\ S_n = <<>>
    /\ dr_nc = <<>>
    /\ abs_dr_n = <<>>
    /\ FNIdle
    /\ CacheIdle
    /\ MicIdle

EdgeNext ==
    \E cut \in InvalidCutoffs(natoms(a)) \cup { Scalar(1), Scalar(MaxCutoff) },
       si \in BOOLEAN : CallOrRaise(cut, si)

SpecEdge == EdgeInit /\ [][EdgeNext]_vars

----------------------------------------------------------------------------
\* the cutoff of the call is invalid: a negative scalar, a negative radius,
\* or a key of the dict that names a species atomic_numbers does not know
UnknownSpecies(el) == el[1] = "sym" /\ el[2] \notin DOMAIN atomic_numbers

InvalidCutoff ==
    \/ cutoff.kind = "scalar" /\ cutoff.c < 0
    \/ cutoff.kind = "array" /\ \E k \in 1..Len(cutoff.r) : cutoff.r[k] < 0
    \/ cutoff.kind = "dict" /\ \E n \in 1..Len(cutoff.d) :
            UnknownSpecies(cutoff.d[n][1]) \/ UnknownSpecies(cutoff.d[n][2])

\* C21: a call of neighbor_list whose pair-cutoff mapping has a key naming
\* an unknown species, or whose scalar or per-particle cutoff is negative,
\* ends in an error and returns no pair list.
C21_InvalidCutoff ==
    (pc # "idle" /\ InvalidCutoff) => pc # "returned"

----------------------------------------------------------------------------
\* the configuration of the call has no particle, or one particle in a
\* domain without a periodic axis and the call excludes self pairs
DegenerateSize ==
    \/ natoms(a) = 0
    \/ /\ natoms(a) = 1
       /\ \A c \in Axes : ~a.pbc[c]
       /\ ~self_interaction

\* C22: neighbor_list on a configuration with zero particles, or with one
\* particle in a non-periodic domain and self_interaction false, does not
\* raise and returns an empty array for every quantity.
C22_DegenerateSizes ==
    (pc # "idle" /\ DegenerateSize /\ ~InvalidCutoff) =>
        /\ pc = "returned"
        /\ i_n = <<>> /\ j_n = <<>> /\ S_n = <<>> /\ dr_nc = <<>> /\ abs_dr_n = <<>>

----------------------------------------------------------------------------
\* the snapshot the cache holds
SnapshotOf == << Cache.pbc, Cache.cell, SnapshotPositions >>

\* a step in which the caller changed its arrays
CallerStep == a' # a

\* C23: build stores copies of positions, cell and pbc: a change the caller
\* makes to its arrays afterwards leaves the snapshot as it is, a rebuild
\* stores the values passed to it, and an update after a build compares the
\* arrays it is given with the snapshot and rebuilds exactly when they
\* differ by more than the criterion allows.
C23_SnapshotOwnership ==
    /\ [][CallerStep => SnapshotOf' = SnapshotOf]_vars
    /\ [][(UpdateStep /\ rebuilt' = "True") => AsSnapshot']_vars
    /\ [][(UpdateStep /\ Cache.nupdates > 0) =>
            (rebuilt' = "True" <=> Criterion)]_vars

\* the caller changed its arrays after a build, so that they differed from
\* the snapshot, and the update that followed rebuilt
C23_Witness ==
    /\ Cache.nupdates = 2
    /\ nmoves > 0
    /\ rebuilt = "True"
    /\ AsSnapshot

----------------------------------------------------------------------------
(* mic (lines 8-36) *)

\* np.round(p / q) for integers p and q # 0: the nearest integer, and the
\* even one of the two when p / q lies halfway between them
np_round(p, q) ==
    LET n == IF q < 0 THEN -p ELSE p
        d == Abs(q)
        f == FloorDiv(n, d)
        r == n - f * d
    IN  IF 2 * r < d THEN f
        ELSE IF 2 * r > d THEN f + 1
        ELSE IF f % 2 = 0 THEN f ELSE f + 1

\* no pbc argument was passed
None == <<>>

\* lines 30-32: rec = pinv(cell), and with a pbc argument row c of rec
\* multiplied by int(pbc[c]); the entries are kept multiplied by det(cell),
\* so that rec[c][k] * det(cell) = rec_c(cell)[k][c]
rec_of(cell, pbc) ==
    [c \in Axes |-> [k \in Axes |->
        IF pbc = None \/ pbc[c] THEN rec_c(cell)[k][c] ELSE 0]]

\* line 33 for one vector v of dr: np.round(np.dot(v, rec))
dri_of(v, cell, pbc) ==
    LET rec == rec_of(cell, pbc)
    IN  [k \in Axes |->
            np_round(v[1] * rec[1][k] + v[2] * rec[2][k] + v[3] * rec[3][k],
                     Det(cell))]

\* line 36: dr - np.dot(dri, cell)
mic(dr, cell, pbc) ==
    Array([n \in 1..Len(dr) |->
        VecSub(dr[n], VecMat(dri_of(dr[n], cell, pbc), cell))])

\* the distance vectors, cells and pbc arguments mic is called with: one
\* vector in the plane of the sheared lattice vectors or out of it, every
\* mask and no mask
DrArrays ==
    { << <<x, y, z>> >> : x \in -MaxDr..MaxDr, y \in -MaxDr..MaxDr, z \in {0, 2} }

AllMasks == { <<px, py, pz>> : px \in BOOLEAN, py \in BOOLEAN, pz \in BOOLEAN }

MicInit ==
    /\ mic_args \in { [dr |-> dr, cell |-> cell, pbc |-> pbc] :
                        dr \in DrArrays, cell \in Cells, pbc \in AllMasks \cup {None} }
    /\ mic_ret = <<>>
    /\ mic_pc = "idle"
    /\ a = [positions |-> <<>>, cell |-> Diag(CellSide, CellSide, CellSide),
            pbc |-> <<FALSE, FALSE, FALSE>>, numbers |-> <<>>]
    /\ cutoff = Scalar(0)
    /\ self_interaction = FALSE
    /\ pc = "idle"
    /\ i_n = <<>>
    /\ j_n = <<>>
    /\ S_n = <<>>
    /\ dr_nc = <<>>
    /\ abs_dr_n = <<>>
    /\ FNIdle
    /\ CacheIdle

\* mic_ret = mic(dr, cell, pbc)
CallMic ==
    /\ mic_pc = "idle"
    /\ mic_ret' = mic(mic_args.dr, mic_args.cell, mic_args.pbc)
    /\ mic_pc' = "returned"
    /\ UNCHANGED <<mic_args, nlvars, fnvars, cachevars>>

SpecMic == MicInit /\ [][CallMic]_vars

----------------------------------------------------------------------------
\* lattice vector k is periodic in the call of mic
MicPeriodic(k) == mic_args.pbc = None \/ mic_args.pbc[k]

\* the fractional coordinate of v along lattice vector k, rounded
RoundedFraction(v, k) ==
    np_round(Dot(v, rec_c(mic_args.cell)[k]), Det(mic_args.cell))

\* C24: for every cell and every pbc mask, mic returns dr minus an integer
\* combination of the lattice vectors in which the coefficient of every
\* lattice vector whose pbc flag is false is zero and the coefficient of
\* every periodic lattice vector is the rounded fractional coordinate of dr
\* along that vector.
C24_MicMask ==
    mic_pc = "returned" =>
        \A n \in 1..Len(mic_args.dr) :
            mic_ret[n] =
                VecSub(mic_args.dr[n],
                       VecMat([k \in Axes |->
                                 IF MicPeriodic(k)
                                 THEN RoundedFraction(mic_args.dr[n], k)
                                 ELSE 0],
                              mic_args.cell))

----------------------------------------------------------------------------
\* C25: an update that returns False leaves the snapshot, the stored pair
\* arrays, the CSR index and nupdates, and so the whole cache, unchanged; the
\* snapshot changes only in an update that rebuilds, which stores the
\* configuration passed to it.
C25_NoRebuildFrame ==
    /\ [][(UpdateStep /\ rebuilt' = "False") => Cache' = Cache]_vars
    /\ [][(SnapshotOf' # SnapshotOf) =>
            (UpdateStep /\ rebuilt' = "True" /\ AsSnapshot')]_vars

\* after a build the caller moved a particle by no more than skin, update
\* returned False, and the snapshot is not the configuration of that update
C25_Witness ==
    /\ Cache.nupdates = 1
    /\ rebuilt = "False"
    /\ nmoves > 0
    /\ ~Criterion
    /\ SnapshotPositions # a.positions

----------------------------------------------------------------------------
(* A caller that uses PrimitiveNeighborList itself, with Cartesian or with *)
(* scaled coordinates                                                      *)

\* the caller has constructed pnl = PrimitiveNeighborList(r, skin,
\* bothways=bothways, use_scaled_positions=scaled)
PrimitiveInit ==
    /\ a \in CacheConfigurations
    /\ impl = "PrimitiveNeighborList"
    /\ \E r \in CacheRadii(natoms(a)), skin \in Skins, bothways \in BOOLEAN,
          scaled \in BOOLEAN :
          /\ radii = r
          /\ nl = NeighborList_init(r, skin, FALSE, TRUE, bothways)
          /\ pnl = PrimitiveNeighborList_init(r, skin, FALSE, TRUE, bothways, scaled)
    /\ rebuilt = "none"
    /\ nmoves = 0
    /\ OnlyCache

\* pnl.update(pbc, cell, coordinates) with the coordinates of the caller's
\* atoms, scaled when the list was constructed for scaled coordinates
PrimitiveUpdate ==
    /\ impl = "PrimitiveNeighborList"
    /\ \E ret \in { PrimitiveNeighborList_update(pnl, a.pbc, a.cell,
                        IF pnl.use_scaled_positions
                        THEN ScaledCoordinates(a.cell, a.positions)
                        ELSE a.positions) } :
        /\ pnl' = ret.self
        /\ rebuilt' = ret.rebuilt
    /\ UNCHANGED <<impl, radii, nl, nmoves, nlvars, fnvars, micvars>>

PrimitiveNext == PrimitiveUpdate \/ MoveAtom \/ SetPbc \/ SetCell

SpecPrimitive == PrimitiveInit /\ [][PrimitiveNext]_vars

----------------------------------------------------------------------------
\* the Cartesian positions of the snapshot of the PrimitiveNeighborList
PrimitiveSnapshotPositions == positions_of(pnl, pnl.cell, pnl.coordinates)

\* some particle is farther than skin, in Cartesian distance, from its
\* position at the last build
MovedBeyondSkin ==
    \E k \in 1..natoms(a) :
        Dot(VecSub(a.positions[k], PrimitiveSnapshotPositions[k]),
            VecSub(a.positions[k], PrimitiveSnapshotPositions[k]))
          > pnl.skin * pnl.skin

\* C26: PrimitiveNeighborList.update, with Cartesian and with scaled
\* coordinates, rebuilds whenever the Cartesian displacement of some
\* particle since the last build exceeds skin.
C26_PrimitiveSkin ==
    [][(impl = "PrimitiveNeighborList" /\ pnl.nupdates > 0 /\ UpdateStep
          /\ MovedBeyondSkin) => rebuilt' = "True"]_vars

----------------------------------------------------------------------------
(* A caller that moves one particle step by step, cell and pbc unchanged   *)

\* skins of one and two grid steps: with skin 2 a single step is smaller
\* than skin and three steps together exceed it
DriftInit ==
    /\ a \in CacheConfigurations
    /\ \E r \in CacheRadii(natoms(a)), skin \in {1, 2}, bothways \in BOOLEAN :
          Constructed(r, skin, FALSE, TRUE, bothways)
    /\ OnlyCache

\* the caller moves the last atom by one step along x
DriftAtom ==
    MovedWithin([a EXCEPT !.positions[natoms(a)] = VecAdd(@, <<1, 0, 0>>)], MaxDrift)

DriftNext == NLUpdate \/ PNLUpdate \/ DriftAtom

SpecDrift == DriftInit /\ [][DriftNext]_vars

----------------------------------------------------------------------------
\* every particle of the configuration atoms is within skin of the snapshot
\* of the cache self
WithinSkinOf(self, atoms) ==
    \A k \in 1..natoms(atoms) :
        LET old == IF impl = "NeighborList" THEN self.positions[k]
                   ELSE self.coordinates[k]
        IN  Dot(VecSub(atoms.positions[k], old), VecSub(atoms.positions[k], old))
              <= self.skin * self.skin

\* C27: with cell and pbc unchanged, after every update call every particle
\* of the configuration passed is within skin of the snapshot, and the
\* snapshot is the one of the last rebuild; an update that finds a particle
\* farther than skin from the snapshot, after however many smaller moves,
\* rebuilds.
C27_AccumulatedDrift ==
    /\ [](\A u \in {UpdateNow} : WithinSkinOf(u.self, a))
    /\ [][UpdateStep => WithinSkinOf(Cache', a')]_vars
    /\ [][(SnapshotOf' # SnapshotOf) => rebuilt' = "True"]_vars
    /\ [][(UpdateStep /\ Cache.nupdates > 0 /\ ~WithinSkinOf(Cache, a)) =>
            (rebuilt' = "True" /\ Cache'.nupdates = Cache.nupdates + 1)]_vars

\* three moves of one step with skin 2: the last update rebuilt, the list
\* has been built twice
C27_Witness ==
    /\ impl = "NeighborList"
    /\ nl.skin = 2
    /\ nmoves = MaxDrift
    /\ nl.nupdates = 2
    /\ rebuilt = "True"
    /\ nl.positions = a.positions

----------------------------------------------------------------------------
(* A caller whose radii may not fit its atoms and who moves one particle   *)
(* towards the others between the updates                                  *)

FailedInit ==
    /\ a \in CacheConfigurations
    /\ \E r \in CacheRadii(natoms(a)) \cup WrongRadii(natoms(a)), skin \in {0, 1},
          selfint \in BOOLEAN :
          Constructed(r, skin, FALSE, selfint, TRUE)
    /\ OnlyCache

\* the caller moves the last atom by one step against x
ApproachAtom ==
    Moved([a EXCEPT !.positions[natoms(a)] = VecAdd(@, <<-1, 0, 0>>)])

FailedNext == NLUpdate \/ PNLUpdate \/ ApproachAtom

SpecFailed == FailedInit /\ [][FailedNext]_vars

----------------------------------------------------------------------------
\* the last update ended in an exception of build
Failed(r) == r \in { "ValueError", "IndexError" }

\* the neighbour data a build from the stored snapshot gives is the data
\* the cache holds
BuiltFromSnapshot ==
    IF impl = "NeighborList"
    THEN \A b \in { NeighborList_build(nl, [positions |-> nl.positions,
                                            cell |-> nl.cell, pbc |-> nl.pbc,
                                            numbers |-> a.numbers]) } :
            /\ b.raised = "none"
            /\ b.self.pair_first = nl.pair_first
            /\ b.self.pair_second = nl.pair_second
            /\ b.self.offset_vec = nl.offset_vec
            /\ b.self.first_neigh = nl.first_neigh
    ELSE \A b \in { PrimitiveNeighborList_build(pnl, pnl.pbc, pnl.cell,
                                                pnl.coordinates) } :
            /\ b.raised = "none"
            /\ b.self.neighbors = pnl.neighbors
            /\ b.self.displacements = pnl.displacements

\* C28: a build that raises leaves the snapshot, the neighbour data and
\* nupdates as they were before the call; in every state with nupdates > 0
\* the stored neighbour data is the data computed from the stored snapshot;
\* and the update that follows a failed one does not return False (the
\* caller only moves a particle on in one direction, so the inputs that
\* follow a failed rebuild are at least as far from the last good snapshot
\* as the inputs that failed).
C28_FailedBuild ==
    /\ [][(UpdateStep /\ Failed(rebuilt')) => Cache' = Cache]_vars
    /\ [](Cache.nupdates > 0 => BuiltFromSnapshot)
    /\ [][(UpdateStep /\ Failed(rebuilt)) => rebuilt' # "False"]_vars

----------------------------------------------------------------------------
\* the bins and the search radius of the call that returned
BinsOfCall == nbins_c_of(a.cell, max_cutoff_of(cutoff))
RadiusOfCall == nd_of(a.cell, max_cutoff_of(cutoff), BinsOfCall)

\* C29: neighbor_list returns no triple (i, j, S) twice, also when an axis
\* has one or two bins, so that several bin offsets reach the same bin, and
\* when the search radius is larger than one bin.
C29_NoDuplicates ==
    Returned =>
        \A m \in Entries, n \in Entries :
            (i_n[m] = i_n[n] /\ j_n[m] = j_n[n] /\ S_n[m] = S_n[n]) => m = n

\* a periodic axis with a single bin and a search radius of more than one
\* bin, and a pair of atoms listed with more than one shift along it
C29_Witness ==
    /\ Returned
    /\ a.pbc[1]
    /\ BinsOfCall[1] = 1
    /\ RadiusOfCall[1] > 1
    /\ \E m \in Entries, n \in Entries :
          /\ i_n[m] = i_n[n] /\ j_n[m] = j_n[n] /\ i_n[m] # j_n[m]
          /\ S_n[m][1] # S_n[n][1]

----------------------------------------------------------------------------
(* A caller that keeps a NeighborList and a PrimitiveNeighborList with the *)
(* same arguments and updates both with the same configuration             *)

\* bothways=True, self_interaction=False, sorted=False, Cartesian
\* coordinates; the configurations are those of neighbor_list, with atoms
\* inside, on the faces of and outside the cells
AgreeInit ==
    /\ a \in Configurations
    /\ impl = "NeighborList and PrimitiveNeighborList"
    /\ \E r \in RadiiArrays(natoms(a)), skin \in {0, 1} :
          /\ radii = r
          /\ nl = NeighborList_init(r, skin, FALSE, FALSE, TRUE)
          /\ pnl = PrimitiveNeighborList_init(r, skin, FALSE, FALSE, TRUE, FALSE)
    /\ rebuilt = << "none", "none" >>
    /\ nmoves = 0
    /\ OnlyCache

\* nl.update(atoms) and pnl.update(atoms.pbc, atoms.cell, atoms.positions)
UpdateBoth ==
    /\ impl = "NeighborList and PrimitiveNeighborList"
    /\ \E ret \in { NeighborList_update(nl, a) },
          pret \in { PrimitiveNeighborList_update(pnl, a.pbc, a.cell, a.positions) } :
        /\ nl' = ret.self
        /\ pnl' = pret.self
        /\ rebuilt' = << ret.rebuilt, pret.rebuilt >>
    /\ UNCHANGED <<impl, radii, nmoves, nlvars, fnvars, micvars>>

SpecAgree == AgreeInit /\ [][UpdateBoth]_vars

----------------------------------------------------------------------------
\* the (neighbour index, shift) entries get_neighbors(k) returns
EntrySet(ret) == { << ret.indices[m], ret.offsets[m] >> : m \in 1..Len(ret.indices) }

\* C30: constructed with the same radii and skin, bothways=True,
\* self_interaction=False and sorted=False, and updated with the same
\* positions, cell and pbc, NeighborList and PrimitiveNeighborList return
\* for every particle the same set of (neighbour index, shift) entries from
\* get_neighbors, also for particles outside the cell on a periodic axis.
C30_CachesAgree ==
    (impl = "NeighborList and PrimitiveNeighborList" /\ rebuilt # << "none", "none" >>) =>
        /\ rebuilt \in { <<"True", "True">>, <<"False", "False">> }
        /\ \A k \in 0..(natoms(a) - 1) :
              EntrySet(NeighborList_get_neighbors(nl, k))
                = EntrySet(PrimitiveNeighborList_get_neighbors(pnl, k))

\* both lists are built, a particle lies outside the cell on a periodic
\* axis and has a neighbour across the boundary in both lists
C30_Witness ==
    /\ impl = "NeighborList and PrimitiveNeighborList"
    /\ rebuilt = <<"True", "True">>
    /\ \E k \in 1..natoms(a) :
          /\ a.pbc[1]
          /\ Dot(a.positions[k], rec_c(a.cell)[1]) < 0
          /\ \E e \in EntrySet(NeighborList_get_neighbors(nl, k - 1)) :
                /\ e[1] # k - 1
                /\ e[2][1] # 0
                /\ e \in EntrySet(PrimitiveNeighborList_get_neighbors(pnl, k - 1))

============================================================================
